---- MODULE Spec2Model ----
(***************************************************************************)
(* The reactive core of hamsterx: createSignal / createEffect, the ambient *)
(* tracking context (currentEffect, effectStack), synchronous write        *)
(* propagation and disposal.                                               *)
(*                                                                         *)
(* The core is synchronous and re-entrant: a setter calls effects, whose   *)
(* bodies call getters, setters, createEffect and dispose.  The host call  *)
(* stack is the variable `frames`; one step of the model is one call the   *)
(* code makes between two callbacks.  Effect bodies (the `fn` handed to    *)
(* createEffect) are user programs; a small instruction set and a table of *)
(* bodies stand for them.                                                  *)
(***************************************************************************)
EXTENDS Integers, Sequences, FiniteSets, TLC

\* ------------------------------------------------------------------ bounds
MaxVal == 2
MaxEffects == 3
MaxOps == 3
MaxDepth == 6
MaxItems == 2

\* `null` of `let currentEffect = null`
Null == 0

Signals == {"X", "Y", "F"}
Values == 0..MaxVal
Effects == 1..MaxEffects
NoFn == "none"

\* ------------------------------------------------------------ user programs
\* One instruction of an effect body.
Ins(op, a, b, c) == [op |-> op, a |-> a, b |-> b, c |-> c]

\* The bodies handed to createEffect.
\*   Rec      () => { log(X()) }
\*   Outer    () => { X(); createEffect(Inner); F() }
\*   Inner    () => { Y() }
\*   Branch   () => { F() ? X() : Y() }
\*   Guard    () => { if (Y() === MaxVal) throw ... }
\*   Copier   () => { setY(X()) }
\*   Disposer () => { F(); if (d1) d1() }     d1: the first effect's disposer
\*   Spawn    () => { createEffect(Guard) }
\*   Climb    () => { const v = X(); setX(v < MaxVal ? v + 1 : MaxVal) }
\*   GrowOnce () => { if (X() === 1) createEffect(Rec) }
\*   Killer   () => { X(); if (d) d(); Y() }  d: the disposer createEffect
\*                                            returned last
\*   Both     () => { log(X(), Y()) }
\*   Double   () => { setX(F()); setY(F()) }
\*   Twice    () => { log(X(), X()) }
\*   Back     () => { setX(Y()) }
Body ==
    [ Rec      |-> << Ins("read", "X", "", "") >>,
      Outer    |-> << Ins("read", "X", "", ""), Ins("create", "Inner", "", ""),
                      Ins("read", "F", "", "") >>,
      Inner    |-> << Ins("read", "Y", "", "") >>,
      Branch   |-> << Ins("if", "F", "X", "Y") >>,
      Guard    |-> << Ins("throwIf", "Y", "", "") >>,
      Copier   |-> << Ins("copy", "X", "Y", "") >>,
      Disposer |-> << Ins("read", "F", "", ""), Ins("dispose", "", "", "") >>,
      Spawn    |-> << Ins("create", "Guard", "", "") >>,
      Climb    |-> << Ins("incr", "X", "", "") >>,
      Bump     |-> << Ins("bump", "X", "", "") >>,
      GrowOnce |-> << Ins("createIf", "X", "Rec", "") >>,
      Killer   |-> << Ins("read", "X", "", ""), Ins("dispose", "last", "", ""),
                      Ins("read", "Y", "", "") >>,
      Both     |-> << Ins("read", "X", "", ""), Ins("read", "Y", "", "") >>,
      Double   |-> << Ins("copy", "F", "X", ""), Ins("copy", "F", "Y", "") >>,
      Twice    |-> << Ins("read", "X", "", ""), Ins("read", "X", "", "") >>,
      Back     |-> << Ins("copy", "Y", "X", "") >> ]

\* The bodies top-level code creates effects from.
TopBodies == {"Outer", "Branch", "Guard", "Copier", "Disposer", "Spawn"}

\* The values the signals are created with.
InitialValues == {[X |-> 0, Y |-> 0, F |-> 1], [X |-> 0, Y |-> 0, F |-> 0]}

VARIABLES
    value,              \* createSignal: `value` of each signal
    subscribers,        \* createSignal: `subscribers` (a Set, in insertion order)
    fnOf,               \* createEffect: `fn` of each effect (NoFn: not created)
    isDisposed,         \* createEffect: `isDisposed`
    cleanupFunctions,   \* createEffect: `cleanupFunctions`, each closure by its signal
    handle,             \* createEffect has returned `dispose` to its caller
    currentEffect,      \* module state `currentEffect`
    effectStack,        \* module state `effectStack`
    frames,             \* host call stack: running effect() and setter() calls
    exc,                \* an exception is propagating up the call stack
    hist,               \* top-level calls made so far, with their outcome
    opsLeft,            \* top-level calls still to be made
    runs,               \* times each effect's body started executing
    log,                \* the reads each effect's body made
    wlog,               \* the values each signal has held, in order
    dom                 \* directives.js: the page, `contexts`, and the bindings

vars == << value, subscribers, fnOf, isDisposed, cleanupFunctions, handle,
           currentEffect, effectStack, frames, exc, hist, opsLeft, runs, log,
           wlog, dom >>

\* ---------------------------------------------------------------- helpers
Range(s) == {s[i] : i \in DOMAIN s}
Last(s) == s[Len(s)]
Front(s) == SubSeq(s, 1, Len(s) - 1)

\* Set.prototype.add / delete on a Set kept in insertion order
SetAdd(s, x) == IF x \in Range(s) THEN s ELSE Append(s, x)
SetDelete(s, x) == SelectSeq(s, LAMBDA y : y # x)

NumEffects == Cardinality({e \in Effects : fnOf[e] # NoFn})

EffectFrame(e, ctor) ==
    [kind |-> "effect", eff |-> e, pc |-> 1, ctor |-> ctor, sig |-> "",
     subs |-> <<>>, idx |-> 0, pre |-> <<>>, inv |-> <<>>, at |-> 0]

SetterFrame(s, snapshot, before, at) ==
    [kind |-> "setter", eff |-> Null, pc |-> 0, ctor |-> FALSE, sig |-> s,
     subs |-> snapshot, idx |-> 1, pre |-> before, inv |-> <<>>, at |-> at]

\* A call of dispose() of effect e in progress; pc is its position in
\* DisposeOrder and idx the next closure of the forEach.
DisposeFrame(e) ==
    [kind |-> "dispose", eff |-> e, pc |-> 1, ctor |-> FALSE, sig |-> "",
     subs |-> <<>>, idx |-> 1, pre |-> <<>>, inv |-> <<>>, at |-> 0]

Top == frames[Len(frames)]
Quiescent == frames = <<>> /\ ~exc

\* The shape of the state: the module variables of the core and the closure
\* variables of every createSignal and createEffect call.
TypeOK ==
    /\ value \in [Signals -> Values]
    /\ \A s \in Signals :
        /\ Range(subscribers[s]) \subseteq Effects
        /\ Cardinality(Range(subscribers[s])) = Len(subscribers[s])
    /\ fnOf \in [Effects -> DOMAIN Body \cup {NoFn}]
    /\ isDisposed \in [Effects -> BOOLEAN]
    /\ \A e \in Effects : Range(cleanupFunctions[e]) \subseteq Signals
    /\ handle \in [Effects -> BOOLEAN]
    /\ currentEffect \in Effects \cup {Null}
    /\ Range(effectStack) \subseteq Effects
    /\ \A i \in DOMAIN frames : frames[i].kind \in {"effect", "setter", "dispose"}
    /\ exc \in BOOLEAN

\* ------------------------------------------------------------ createSignal
\* A getter that registers whatever currentEffect holds, null included.
GetterSubscribersUnguarded(subs, s, cur) == [subs EXCEPT ![s] = SetAdd(@, cur)]

\* Mutant of GetterSubscribers: the subscribers are kept in a list, and every
\* tracked read appends the current effect to it.
GetterSubscribersAppend(subs, s, cur) ==
    IF cur # Null THEN [subs EXCEPT ![s] = Append(@, cur)] ELSE subs

\* getter: `if (currentEffect) subscribers.add(currentEffect)`
GetterSubscribers(subs, s, cur) ==
    IF cur # Null THEN [subs EXCEPT ![s] = SetAdd(@, cur)] ELSE subs

\* getter: `currentEffect.cleanup.add(() => subscribers.delete(currentEffect))`
\* The closure is a new object on every read; it captures `subscribers` of
\* signal s and names the module variable currentEffect, read when it is called.
GetterCleanup(cl, s, cur) ==
    IF cur # Null THEN [cl EXCEPT ![cur] = Append(@, s)] ELSE cl

\* JavaScript numbers that === and Object.is tell apart: NaN, the two zeros,
\* and an ordinary number.
NaN == "NaN"
PosZero == "+0"
NegZero == "-0"
One == "1"
NumValues == {NaN, PosZero, NegZero, One}

\* Mutant of ObjectIs: the guard is `value === newValue` (NaN differs from
\* itself, the two zeros are equal).
ObjectIsStrict(a, b) ==
    /\ a # NaN
    /\ b # NaN
    /\ a = b \/ {a, b} = {PosZero, NegZero}

\* Mutant of ObjectIs: the setter has no equal-value guard.
ObjectIsNever(a, b) == FALSE

\* setter: `Object.is(value, newValue)`
ObjectIs(a, b) == a = b

\* setter: `value = newValue`
\* Mutant of SetterStore: every createSignal call shares one `value` cell.
SetterStoreShared(val, s, v) == [t \in DOMAIN val |-> v]

SetterStore(val, s, v) == [val EXCEPT ![s] = v]

\* Mutant of ArrayFrom: the copy is taken after subscribers.clear().
ArrayFromAfterClear(set) == <<>>

\* Mutant of ArrayFrom: the copy lists the effects in the order of their
\* creation, whatever the insertion order of the Set.
ArrayFromByCreation(set) == SortSeq(set, LAMBDA a, b : a < b)

\* Mutant of ArrayFrom: the copy leaves out the effects whose body is
\* executing, as a guard against re-entrant runs would.
ArrayFromIdle(set) == SelectSeq(set, LAMBDA e : e \notin Range(effectStack))

\* Mutant of ArrayFrom: a write replays every effect created so far.
ArrayFromEveryEffect(set) ==
    [i \in 1..Cardinality({e \in Effects : fnOf[e] # NoFn}) |-> i]

\* setter: `Array.from(subscribers)`
ArrayFrom(set) == set

\* setter: `subscribers.clear()`
SetterClear(subs, s) == [subs EXCEPT ![s] = <<>>]

\* Mutant of SetterReAdd: the replay rebuilds the set from the snapshot, one
\* subscriber at a time, dropping what was added in between.
SetterReAddAlone(subs, s, fn) == [subs EXCEPT ![s] = << fn >>]

\* Mutant of SetterReAdd: the replay does not re-add the subscriber.
SetterNoReAdd(subs, s, fn) == subs

\* setter: `subscribers.add(fn)` inside the replay
SetterReAdd(subs, s, fn) == [subs EXCEPT ![s] = SetAdd(@, fn)]

\* ------------------------------------------------------------ createEffect
\* Mutant of EffectSkips: effect() does not look at isDisposed.
EffectNeverSkips(disposed, e) == FALSE

\* Mutant of EffectSkips: a re-run asked for while an effect is running is
\* dropped, as if left to a later batch.
EffectSkipsWhileRunning(disposed, e) == disposed[e] \/ effectStack # <<>>

\* effect: `if (isDisposed) return`
EffectSkips(disposed, e) == disposed[e]

\* Mutant of EnterCurrent: a nested effect leaves the outer one current.
EnterKeepsOuter(e, cur) == IF cur # Null THEN cur ELSE e

\* effect: `currentEffect = effect`
EnterCurrent(e, cur) == e

\* effect: `effectStack.push(effect)`
StackPush(stack, e) == Append(stack, e)

\* Mutant of StackPop: the finally block does not pop.
StackNoPop(stack) == stack

\* effect, finally: `effectStack.pop()`
StackPop(stack) == Front(stack)

\* Mutant of RestoreCurrent: a single variable reset to null, no stack.
RestoreNull(stack) == Null

\* effect, finally: `currentEffect = effectStack[effectStack.length - 1] || null`
RestoreCurrent(stack) == IF stack = <<>> THEN Null ELSE Last(stack)

\* dispose: `cleanupFunctions.forEach(fn => fn())`, each fn being
\* `subscribers.delete(currentEffect)` on its own signal, with currentEffect
\* as it is at the time of the dispose() call.
DisposeSubscribers(subs, fns, cur) ==
    [s \in Signals |-> IF s \in Range(fns) THEN SetDelete(subs[s], cur) ELSE subs[s]]

\* Mutant of DisposeOrder: the flag is set after the closures have run and
\* the set is cleared.
DisposeOrderFlagLast == << "forEach", "clear", "flag" >>

\* dispose: the statements of its body, in order
DisposeOrder == << "flag", "forEach", "clear" >>

\* Mutant of DisposeClear: the cleanup closures stay in the set.
DisposeKeepsClosures(cl, e) == cl

\* dispose: `cleanupFunctions.clear()`
DisposeClear(cl, e) == [cl EXCEPT ![e] = <<>>]

\* -------------------------------------------------------- calls (sub-steps)
Advance(fr) == [fr EXCEPT ![Len(fr)].pc = @ + 1]

\* The reads made so far, over all effects.
RECURSIVE CountReads(_, _)
CountReads(lg, n) == IF n = 0 THEN 0 ELSE Len(lg[n]) + CountReads(lg, n - 1)

LogRead(lg, e, s) ==
    [lg EXCEPT ![e] = Append(@, [sig |-> s, val |-> value[s],
                                 at |-> Len(wlog[s]), run |-> runs[e],
                                 seq |-> CountReads(lg, MaxEffects) + 1])]

\* Mutant of CallSetter: the replay is queued and runs once the calls in
\* progress have returned.
CallSetterQueued(s, v, fr, subs) ==
    IF ObjectIs(value[s], v)
    THEN /\ frames' = fr
         /\ subscribers' = subs
         /\ UNCHANGED << value, wlog >>
    ELSE /\ value' = SetterStore(value, s, v)
         /\ wlog' = [wlog EXCEPT ![s] = Append(@, v)]
         /\ subscribers' = SetterClear(subs, s)
         /\ frames' = << SetterFrame(s, ArrayFrom(subs[s]), subs[s],
                                     Len(wlog[s]) + 1) >> \o fr

\* Mutant of CallSetter: a write made while a replay of the same signal is
\* in progress stores the value and leaves the subscribers to that replay.
CallSetterNoReentry(s, v, fr, subs) ==
    IF ObjectIs(value[s], v)
    THEN /\ frames' = fr
         /\ subscribers' = subs
         /\ UNCHANGED << value, wlog >>
    ELSE /\ value' = SetterStore(value, s, v)
         /\ wlog' = [wlog EXCEPT ![s] = Append(@, v)]
         /\ IF \E i \in DOMAIN fr : fr[i].kind = "setter" /\ fr[i].sig = s
            THEN /\ subscribers' = subs
                 /\ frames' = fr
            ELSE /\ subscribers' = SetterClear(subs, s)
                 /\ frames' = Append(fr, SetterFrame(s, ArrayFrom(subs[s]), subs[s],
                                                     Len(wlog[s]) + 1))

\* setter(v) of signal s, called with the caller's frames `fr` and the
\* subscriber sets `subs` as the caller left them.
CallSetter(s, v, fr, subs) ==
    IF ObjectIs(value[s], v)
    THEN /\ frames' = fr
         /\ subscribers' = subs
         /\ UNCHANGED << value, wlog >>
    ELSE /\ value' = SetterStore(value, s, v)
         /\ wlog' = [wlog EXCEPT ![s] = Append(@, v)]
         /\ subscribers' = SetterClear(subs, s)
         /\ frames' = Append(fr, SetterFrame(s, ArrayFrom(subs[s]), subs[s],
                                             Len(wlog[s]) + 1))

\* Mutant of CallEffect: the isDisposed guard stands after the two
\* assignments that enter the effect, outside the try block.
CallEffectGuardsLate(e, ctor, fr) ==
    IF EffectSkips(isDisposed, e)
    THEN /\ frames' = fr
         /\ currentEffect' = EnterCurrent(e, currentEffect)
         /\ effectStack' = StackPush(effectStack, e)
         /\ UNCHANGED runs
    ELSE /\ currentEffect' = EnterCurrent(e, currentEffect)
         /\ effectStack' = StackPush(effectStack, e)
         /\ runs' = [runs EXCEPT ![e] = @ + 1]
         /\ frames' = Append(fr, EffectFrame(e, ctor))

\* effect() of effect e, called with the caller's frames `fr`.
CallEffect(e, ctor, fr) ==
    IF EffectSkips(isDisposed, e)
    THEN /\ frames' = fr
         /\ UNCHANGED << currentEffect, effectStack, runs >>
    ELSE /\ currentEffect' = EnterCurrent(e, currentEffect)
         /\ effectStack' = StackPush(effectStack, e)
         /\ runs' = [runs EXCEPT ![e] = @ + 1]
         /\ frames' = Append(fr, EffectFrame(e, ctor))

\* The finally block of effect().
Finally ==
    /\ effectStack' = StackPop(effectStack)
    /\ currentEffect' = RestoreCurrent(effectStack')

\* Mutant of OnThrow: the restore follows fn() without try/finally.
OnThrowSkipsRestore == UNCHANGED << currentEffect, effectStack >>

\* effect: `try { fn() } finally { ... }` when fn() throws.
OnThrow == Finally

\* createEffect(Body[b]) up to and including the call `effect()`.
CallCreateEffect(b, fr) ==
    /\ NumEffects < MaxEffects
    /\ LET n == NumEffects + 1 IN
        /\ fnOf' = [fnOf EXCEPT ![n] = b]
        /\ CallEffect(n, TRUE, fr)

\* dispose() of effect e.
CallDispose(e) ==
    /\ isDisposed' = [isDisposed EXCEPT ![e] = TRUE]
    /\ subscribers' = DisposeSubscribers(subscribers, cleanupFunctions[e], currentEffect)
    /\ cleanupFunctions' = DisposeClear(cleanupFunctions, e)

\* ---------------------------------------------------------- directive layer
\* The page is a tree of elements; `D` below is the whole of the directive
\* layer's state: the elements (with their entry in the `contexts` WeakMap,
\* their textContent and their listeners), the context objects, the signals
\* and effects the bindings created, and the tracking context of the core.
\*
\*   <body>
\*     <div x-data="{ count: 0, items: [...], label() { return this.count } }"
\*          x-on:click="count = (count + 1) % N" x-init="...">            comp
\*       <span x-text="count"></span>                                    txt
\*       <div x-data="{ n: 0 }"><span x-text="n"></span></div>           inner, itxt
\*       <li x-for="item in items" ...>...</li>                          list
\*     </div>
\*   </body>
\*
\* The repeated element is one of four templates: no directive ("plain"),
\* x-text="item" ("text"), x-text="label()" ("method"), or a nested
\* <div x-data="{ n: 0 }"><span x-text="n"> ("nested").
Empty == -1
Templates == {"plain", "text", "method", "nested"}

\* The two copies of the core the directive layer can be loaded with: the one
\* whose createEffect returns `dispose`, and src/src/signal.js, whose
\* createEffect returns nothing and has no isDisposed flag.
Cores == {"dispose", "plain"}

Element(role, parent) ==
    [role |-> role, parent |-> parent, ctx |-> Null, text |-> Empty,
     listeners |-> <<>>]

Page ==
    << Element("body", 0), Element("comp", 1), Element("txt", 2),
       Element("inner", 2), Element("itxt", 4), Element("list", 2) >>

BodyEl == 1
CompEl == 2
InnerEl == 4

\* The attributes of an element, by its role.
XData(role) == role \in {"comp", "inner", "ibox"}
XText(role) ==
    CASE role = "txt" -> "count"
      [] role \in {"itxt", "ibtxt"} -> "n"
      [] role = "text" -> "item"
      [] role = "method" -> "label"
      [] role = "chk" -> "guarded"
      [] OTHER -> ""
XOn(role) == role = "comp"
XFor(role) == role = "list"
XInit(role) == role = "comp"

Props == {"count", "items", "n", "item", "index", "label"}
NoProp == [k |-> "none", sig |-> 0, v |-> 0]
SigProp(s) == [k |-> "sig", sig |-> s, v |-> 0]
ValProp(v) == [k |-> "val", sig |-> 0, v |-> v]
FnProp(s) == [k |-> "fn", sig |-> s, v |-> 0]
NoData == [p \in Props |-> NoProp]

\* A set of element ids as the sequence in document order.
SeqOf(S) ==
    [i \in 1..Cardinality(S) |->
        CHOOSE x \in S : Cardinality({y \in S : y < x}) = i - 1]

RECURSIVE IsDescendant(_, _, _)
IsDescendant(D, x, el) ==
    LET p == D.els[x].parent
    IN p # 0 /\ (p = el \/ IsDescendant(D, p, el))

\* Array.from(el.children)
Children(D, el) == SeqOf({x \in DOMAIN D.els : D.els[x].parent = el})

\* el.querySelectorAll('[x-data]')
QuerySelectorAll(D, el) ==
    SeqOf({x \in DOMAIN D.els : XData(D.els[x].role) /\ IsDescendant(D, x, el)})

Throw(D) == [D EXCEPT !.exc = TRUE]
\* Mutant of CatchError: no handler; what was thrown goes on to the caller.
CatchErrorAbsent(D) == D

\* catch (e) { console.error(...) }
CatchError(D) ==
    IF D.exc THEN [D EXCEPT !.exc = FALSE, !.errors = @ + 1] ELSE D

\* createSignal(v); the new signal is the last of D.sigs
CreateSignal(D, v) == [D EXCEPT !.sigs = Append(@, [val |-> v, subs |-> <<>>])]

\* getter of signal s
SignalGet(D, s) ==
    IF D.cur = Null
    THEN D
    ELSE [D EXCEPT !.sigs[s].subs = SetAdd(@, D.cur),
                   !.effs[D.cur].cleanup =
                       IF D.core = "dispose" THEN Append(@, s) ELSE @]

\* dispose of effect e
EffectDispose(D, e) ==
    [D EXCEPT !.effs[e].disposed = TRUE,
              !.effs[e].cleanup = <<>>,
              !.sigs = [s \in DOMAIN D.sigs |->
                          IF s \in Range(D.effs[e].cleanup)
                          THEN [D.sigs[s] EXCEPT !.subs = SetDelete(@, D.cur)]
                          ELSE D.sigs[s]]]

\* getContext(el): the element's own context or the nearest ancestor's
RECURSIVE GetContext(_, _)
GetContext(D, el) ==
    IF el = 0 THEN Null
    ELSE IF D.els[el].ctx # Null THEN D.els[el].ctx
    ELSE GetContext(D, D.els[el].parent)

\* initData(el)
InitData(D, el) ==
    LET s == Len(D.sigs)
        c == Len(D.ctxs) + 1
        D1 == IF D.els[el].role = "comp"
              THEN [CreateSignal(
                        CreateSignal(D, 0),
                        [arr |-> D.arrs + 1, len |-> D.len])
                    EXCEPT !.arrs = @ + 1]
              ELSE CreateSignal(D, 0)
        data == IF D.els[el].role = "comp"
                THEN [NoData EXCEPT !["count"] = SigProp(s + 1),
                                    !["items"] = SigProp(s + 2),
                                    !["label"] = FnProp(s + 1)]
                ELSE [NoData EXCEPT !["n"] = SigProp(s + 1)]
    IN [D1 EXCEPT !.ctxs = Append(@, [el |-> el, data |-> data, from |-> Null,
                                      hasCleanup |-> TRUE, cleanup |-> <<>>,
                                      deleted |-> FALSE]),
                  !.els[el].ctx = c]

\* The value of an expression, computed once and handed to what follows.
Then(x, F(_)) == CHOOSE y \in {F(d) : d \in {x}} : TRUE

\* The expression "guarded" stands for `count === N ? absent.value : count`
\* with N = MaxVal: it reads count and throws a ReferenceError when count is N.
Guarded == "guarded"
Operand(expr) == IF expr = Guarded THEN "count" ELSE expr

\* The value evaluateExpression(expr, context) returns: null when the
\* expression threw.
ExprValue(D, c, expr) ==
    LET p == D.ctxs[c].data[Operand(expr)]
    IN CASE p.k \in {"sig", "fn"} ->
                IF expr = Guarded /\ D.sigs[p.sig].val = MaxVal
                THEN Empty
                ELSE D.sigs[p.sig].val
         [] p.k = "val" -> p.v
         [] OTHER -> Empty

\* The function built from the expression runs: the reads it makes; an
\* unknown name is a ReferenceError.
RunExpression(D, c, expr) ==
    LET p == D.ctxs[c].data[Operand(expr)]
    IN CASE p.k \in {"sig", "fn"} ->
                Then(SignalGet(D, p.sig),
                     LAMBDA D1 : IF expr = Guarded /\ D1.sigs[p.sig].val = MaxVal
                                 THEN Throw(D1)
                                 ELSE D1)
         [] p.k = "val" -> D
         [] OTHER -> Throw(D)

\* evaluateExpression(expr, context): what the expression throws is caught
\* and logged, and the result is null.
EvaluateExpression(D, c, expr) == CatchError(RunExpression(D, c, expr))

\* context.cleanup.push(fn)
CleanupPush(D, c, fn) ==
    IF D.ctxs[c].hasCleanup
    THEN [D EXCEPT !.ctxs[c].cleanup = Append(@, fn)]
    ELSE Throw(D)

\* What createEffect returned, as an entry of a cleanup list.
Disposer(D, e) ==
    IF D.core = "dispose"
    THEN [kind |-> "dispose", eff |-> e, el |-> 0, h |-> 0]
    ELSE [kind |-> "undefined", eff |-> 0, el |-> 0, h |-> 0]

\* { ...context.data, [itemName]: item, [indexName]: idx }: the spread reads
\* every data property through its getter.
RECURSIVE SpreadReads(_, _, _)
SpreadReads(D, c, ps) ==
    IF ps = {} THEN D
    ELSE LET p == CHOOSE q \in ps : TRUE
         IN Then(IF D.ctxs[c].data[p].k = "sig"
                 THEN SignalGet(D, D.ctxs[c].data[p].sig)
                 ELSE D,
                 LAMBDA D1 : SpreadReads(D1, c, ps \ {p}))

ScopedData(D, c, i) ==
    [p \in Props |->
        CASE p = "item" -> ValProp(i)
          [] p = "index" -> ValProp(i - 1)
          [] D.ctxs[c].data[p].k = "sig" -> ValProp(D.sigs[D.ctxs[c].data[p].sig].val)
          [] OTHER -> D.ctxs[c].data[p]]

\* template.cloneNode(true)
CloneTemplate(D) ==
    LET r == Len(D.els) + 1
    IN IF D.tpl = "nested"
       THEN [D EXCEPT !.els = @ \o << Element("nested", 0), Element("ibox", r),
                                      Element("ibtxt", r + 1) >>]
       ELSE [D EXCEPT !.els = Append(@, Element(D.tpl, 0))]

RECURSIVE EffectCall(_, _), SignalSet(_, _, _), Replay(_, _, _, _)
RECURSIVE ProcessElement(_, _), ProcessEach(_, _, _), RenderItems(_, _, _, _)
RECURSIVE Cleanup(_, _), CleanupEach(_, _, _), RunCleanups(_, _, _)
RECURSIVE CleanNodes(_, _, _)

\* createEffect(fn): the new effect is the last of D.effs
CreateEffect(D, kind, el, c, par) ==
    Then([D EXCEPT !.effs = Append(@, [kind |-> kind, el |-> el, ctx |-> c,
                                       par |-> par, disposed |-> FALSE,
                                       cleanup |-> <<>>, nodes |-> <<>>,
                                       runs |-> 0])],
         LAMBDA D1 : EffectCall(D1, Len(D1.effs)))

\* bindText(el, expr, context)
BindText(D, el, c) ==
    IF c = Null THEN D
    ELSE Then(CreateEffect(D, "text", el, c, 0),
              LAMBDA D1 : CleanupPush(D1, c, Disposer(D1, Len(D.effs) + 1)))

\* bindFor(el, expr, context): el gives way to a comment marker
BindFor(D, el, c) ==
    IF c = Null THEN D
    ELSE Then([D EXCEPT !.els[el].parent = 0],
         LAMBDA D1 :
         Then(CreateEffect(D1, "for", el, c, D.els[el].parent),
         LAMBDA D2 : CleanupPush(D2, c, Disposer(D2, Len(D.effs) + 1))))

\* bindEvent(el, eventName, stmt, context)
BindEvent(D, el, c) ==
    IF c = Null THEN D
    ELSE Then([D EXCEPT !.handlers = Append(@, [el |-> el, ctx |-> c]),
                        !.els[el].listeners = Append(@, Len(D.handlers) + 1)],
              LAMBDA D1 : CleanupPush(D1, c, [kind |-> "unlisten", eff |-> 0,
                                              el |-> el, h |-> Len(D.handlers) + 1]))

\* Every binding directive on x has been set up / x has been processed.
Bound(D, x) ==
    /\ XText(D.els[x].role) # "" =>
         \E e \in DOMAIN D.effs : D.effs[e].el = x /\ D.effs[e].kind = "text"
    /\ XOn(D.els[x].role) => D.els[x].listeners # <<>>
    /\ XFor(D.els[x].role) =>
         \E e \in DOMAIN D.effs : D.effs[e].el = x /\ D.effs[e].kind = "for"
    /\ XData(D.els[x].role) => D.els[x].ctx # Null

\* bindInit(stmt, context): the statement starts at once; it notes whether
\* the bindings of the element and of its descendants are in place.
BindInit(D, el, c) ==
    IF c = Null THEN D
    ELSE [D EXCEPT !.inits = Append(@,
            [el |-> el,
             own |-> Bound(D, el),
             below |-> \A x \in DOMAIN D.els : IsDescendant(D, x, el) => Bound(D, x)])]

\* The body of a binding's effect.
TextBody(D, e) ==
    CatchError(
        [EvaluateExpression(D, D.effs[e].ctx, XText(D.els[D.effs[e].el].role))
            EXCEPT !.els[D.effs[e].el].text =
                       ExprValue(D, D.effs[e].ctx, XText(D.els[D.effs[e].el].role))])

\* One item: clone, scoped context, processElement, insertBefore, push.
RenderItem(D, e, i) ==
    LET c == D.effs[e].ctx
        r == Len(D.els) + 1
    IN Then(SpreadReads(CloneTemplate(D), c, Props),
       LAMBDA D1 :
       Then(ProcessElement(
                [D1 EXCEPT !.ctxs = Append(@, [el |-> r, data |-> ScopedData(D1, c, i),
                                               from |-> c, hasCleanup |-> FALSE,
                                               cleanup |-> <<>>,
                                               deleted |-> FALSE]),
                           !.els[r].ctx = Len(D1.ctxs) + 1], r),
       LAMBDA D2 :
            IF D2.exc THEN D2
            ELSE [D2 EXCEPT !.els[r].parent = D.effs[e].par,
                            !.effs[e].nodes = Append(@, r)]))

RenderItems(D, e, n, i) ==
    IF D.exc \/ i > n THEN D
    ELSE Then(RenderItem(D, e, i), LAMBDA D1 : RenderItems(D1, e, n, i + 1))

\* nodes.forEach(n => { cleanup(n); n.remove(); })
CleanNodes(D, ns, i) ==
    IF D.exc \/ i > Len(ns) THEN D
    ELSE Then(Cleanup(D, ns[i]),
              LAMBDA D1 : IF D1.exc THEN D1
                          ELSE CleanNodes([D1 EXCEPT !.els[ns[i]].parent = 0], ns, i + 1))

ForBody(D, e) ==
    Then(EvaluateExpression(D, D.effs[e].ctx, "items"),
    LAMBDA D1 :
    Then(CleanNodes(D1, D1.effs[e].nodes, 1),
    LAMBDA D2 :
    Then(IF D2.exc THEN D2
         ELSE RenderItems([D2 EXCEPT !.effs[e].nodes = <<>>], e,
                          ExprValue(D, D.effs[e].ctx, "items").len, 1),
    LAMBDA D3 : CatchError(D3))))

\* effect()
EffectCall(D, e) ==
    IF D.core = "dispose" /\ EffectSkips([x \in DOMAIN D.effs |-> D.effs[x].disposed], e)
    THEN D
    ELSE Then([D EXCEPT !.cur = EnterCurrent(e, D.cur),
                        !.stack = StackPush(D.stack, e),
                        !.effs[e].runs = @ + 1],
         LAMBDA D1 :
         Then(IF D.effs[e].kind = "text" THEN TextBody(D1, e) ELSE ForBody(D1, e),
         LAMBDA D2 : [D2 EXCEPT !.stack = StackPop(D2.stack),
                                !.cur = RestoreCurrent(StackPop(D2.stack))]))

\* subs.forEach(fn => { subscribers.add(fn); fn(); })
Replay(D, s, subs, i) ==
    IF D.exc \/ i > Len(subs) THEN D
    ELSE Then([D EXCEPT !.sigs[s].subs = SetAdd(@, subs[i])],
         LAMBDA D1 :
         Then(EffectCall(D1, subs[i]),
         LAMBDA D2 : Replay(D2, s, subs, i + 1)))

\* setter of signal s
SignalSet(D, s, v) ==
    IF ObjectIs(D.sigs[s].val, v) THEN D
    ELSE Then([D EXCEPT !.sigs[s].val = v, !.sigs[s].subs = <<>>],
              LAMBDA D1 : Replay(D1, s, ArrayFrom(D.sigs[s].subs), 1))

\* The directives of el, bound in attribute order.
BindDirectives(D, el, c) ==
    IF XText(D.els[el].role) # "" THEN BindText(D, el, c)
    ELSE IF XOn(D.els[el].role) THEN BindEvent(D, el, c)
    ELSE IF XFor(D.els[el].role) THEN BindFor(D, el, c)
    ELSE D

\* processElement(el)
ProcessElement(D, el) ==
    Then(IF XData(D.els[el].role) THEN InitData(D, el) ELSE D,
    LAMBDA D1 :
    Then(BindDirectives(D1, el, GetContext(D1, el)),
    LAMBDA D2 :
    Then(IF XInit(D.els[el].role) /\ ~D2.exc
         THEN BindInit(D2, el, GetContext(D1, el))
         ELSE D2,
    LAMBDA D3 :
         IF XFor(D.els[el].role) \/ D3.exc THEN D3
         ELSE Then(Children(D3, el), LAMBDA kids : ProcessEach(D3, kids, 1)))))

ProcessEach(D, kids, i) ==
    IF D.exc \/ i > Len(kids) THEN D
    ELSE Then(ProcessElement(D, kids[i]), LAMBDA D1 : ProcessEach(D1, kids, i + 1))

\* One function of a cleanup list is called.
RunCleanup(D, fn) ==
    CASE fn.kind = "dispose" -> EffectDispose(D, fn.eff)
      [] fn.kind = "unlisten" -> [D EXCEPT !.els[fn.el].listeners = SetDelete(@, fn.h)]
      [] OTHER -> Throw(D)

\* context.cleanup.forEach(fn => fn())
RunCleanups(D, fns, i) ==
    IF D.exc \/ i > Len(fns) THEN D
    ELSE Then(RunCleanup(D, fns[i]), LAMBDA D1 : RunCleanups(D1, fns, i + 1))

\* cleanup(el)
Cleanup(D, el) ==
    IF D.exc \/ D.els[el].ctx = Null THEN D
    ELSE IF ~D.ctxs[D.els[el].ctx].hasCleanup THEN Throw(D)
    ELSE Then(RunCleanups(D, D.ctxs[D.els[el].ctx].cleanup, 1),
         LAMBDA D1 :
            IF D1.exc THEN D1
            ELSE Then(QuerySelectorAll(D1, el),
                 LAMBDA kids :
                    CleanupEach([D1 EXCEPT !.els[el].ctx = Null,
                                           !.ctxs[D.els[el].ctx].deleted = TRUE],
                                kids, 1)))

CleanupEach(D, kids, i) ==
    IF D.exc \/ i > Len(kids) THEN D
    ELSE Then(Cleanup(D, kids[i]), LAMBDA D1 : CleanupEach(D1, kids, i + 1))

\* A click on el: each listener's handler runs its statement,
\* count = (count + 1) % (MaxVal + 1), on its own context's data.
RECURSIVE Dispatch(_, _, _)
Dispatch(D, hs, i) ==
    IF i > Len(hs) THEN D
    ELSE LET s == D.ctxs[D.handlers[hs[i]].ctx].data["count"].sig
         IN Then(CatchError(SignalSet(D, s, (D.sigs[s].val + 1) % (MaxVal + 1))),
                 LAMBDA D1 : Dispatch(D1, hs, i + 1))

\* ------------------------------------------------------------------- Init
\* The page as loaded, before hamsterx has processed it.
DomStart(core, tpl, len) ==
    [els |-> Page, ctxs |-> <<>>, sigs |-> <<>>, effs |-> <<>>, handlers |-> <<>>,
     cur |-> Null, stack |-> <<>>, exc |-> FALSE, errors |-> 0, inits |-> <<>>,
     arrs |-> 0, held |-> {}, loaded |-> FALSE,
     core |-> core, tpl |-> tpl, len |-> len]

StartCore(ops, initial) ==
    /\ value \in initial
    /\ opsLeft = ops
    /\ subscribers = [s \in Signals |-> <<>>]
    /\ fnOf = [e \in Effects |-> NoFn]
    /\ isDisposed = [e \in Effects |-> FALSE]
    /\ cleanupFunctions = [e \in Effects |-> <<>>]
    /\ handle = [e \in Effects |-> FALSE]
    /\ currentEffect = Null
    /\ effectStack = <<>>
    /\ frames = <<>>
    /\ exc = FALSE
    /\ hist = <<>>
    /\ runs = [e \in Effects |-> 0]
    /\ log = [e \in Effects |-> <<>>]
    /\ wlog = [s \in Signals |-> << value[s] >>]

StartWith(ops, initial) ==
    /\ StartCore(ops, initial)
    /\ dom = DomStart("dispose", "plain", 1)

Start(ops) == StartWith(ops, InitialValues)

Init == Start(MaxOps)

\* ------------------------------------------------------- top-level calls
HistOp(op, a, v) == [op |-> op, a |-> a, v |-> v, threw |-> FALSE]
CanCall == Quiescent /\ opsLeft > 0

\* createEffect(Body[b]) called by top-level code
TopCreate(b) ==
    /\ CanCall
    /\ hist' = Append(hist, HistOp("create", b, NumEffects + 1))
    /\ opsLeft' = opsLeft - 1
    /\ CallCreateEffect(b, frames)
    /\ UNCHANGED << value, subscribers, isDisposed, cleanupFunctions, handle,
                    exc, log, wlog >>
    /\ UNCHANGED dom

\* setter(v) of signal s called by top-level code
TopWrite(s, v) ==
    /\ CanCall
    /\ hist' = Append(hist, HistOp("write", s, v))
    /\ opsLeft' = opsLeft - 1
    /\ CallSetter(s, v, frames, subscribers)
    /\ UNCHANGED << fnOf, isDisposed, cleanupFunctions, handle, currentEffect,
                    effectStack, exc, runs, log >>
    /\ UNCHANGED dom

\* dispose() of effect e called by top-level code
TopDispose(e) ==
    /\ CanCall
    /\ handle[e]
    /\ hist' = Append(hist, HistOp("dispose", "", e))
    /\ opsLeft' = opsLeft - 1
    /\ CallDispose(e)
    /\ UNCHANGED << value, fnOf, handle, currentEffect, effectStack, frames,
                    exc, runs, log, wlog >>
    /\ UNCHANGED dom

\* getter() of signal s called by top-level code; the call returns value[s]
TopRead(s) ==
    /\ CanCall
    /\ hist' = Append(hist, HistOp("read", s, value[s]))
    /\ opsLeft' = opsLeft - 1
    /\ subscribers' = GetterSubscribers(subscribers, s, currentEffect)
    /\ cleanupFunctions' = GetterCleanup(cleanupFunctions, s, currentEffect)
    /\ UNCHANGED << value, fnOf, isDisposed, handle, currentEffect, effectStack,
                    frames, exc, runs, log, wlog >>
    /\ UNCHANGED dom

\* ------------------------------------------------- steps of an effect body
InBody ==
    /\ frames # <<>>
    /\ ~exc
    /\ Top.kind = "effect"
    /\ Top.pc <= Len(Body[fnOf[Top.eff]])

Instr == Body[fnOf[Top.eff]][Top.pc]

\* S()
StepRead ==
    /\ InBody
    /\ Instr.op = "read"
    /\ subscribers' = GetterSubscribers(subscribers, Instr.a, currentEffect)
    /\ cleanupFunctions' = GetterCleanup(cleanupFunctions, Instr.a, currentEffect)
    /\ log' = LogRead(log, Top.eff, Instr.a)
    /\ frames' = Advance(frames)
    /\ UNCHANGED << value, fnOf, isDisposed, handle, currentEffect, effectStack,
                    exc, hist, opsLeft, runs, wlog >>
    /\ UNCHANGED dom

\* C() ? A() : B()
StepIf ==
    /\ InBody
    /\ Instr.op = "if"
    /\ LET c == Instr.a
           t == IF value[c] # 0 THEN Instr.b ELSE Instr.c
       IN /\ subscribers' = GetterSubscribers(
                                GetterSubscribers(subscribers, c, currentEffect),
                                t, currentEffect)
          /\ cleanupFunctions' = GetterCleanup(
                                GetterCleanup(cleanupFunctions, c, currentEffect),
                                t, currentEffect)
          /\ log' = LogRead(LogRead(log, Top.eff, c), Top.eff, t)
    /\ frames' = Advance(frames)
    /\ UNCHANGED << value, fnOf, isDisposed, handle, currentEffect, effectStack,
                    exc, hist, opsLeft, runs, wlog >>
    /\ UNCHANGED dom

\* setB(A())
StepCopy ==
    /\ InBody
    /\ Instr.op = "copy"
    /\ cleanupFunctions' = GetterCleanup(cleanupFunctions, Instr.a, currentEffect)
    /\ log' = LogRead(log, Top.eff, Instr.a)
    /\ CallSetter(Instr.b, value[Instr.a], Advance(frames),
                  GetterSubscribers(subscribers, Instr.a, currentEffect))
    /\ UNCHANGED << fnOf, isDisposed, handle, currentEffect, effectStack, exc,
                    hist, opsLeft, runs >>
    /\ UNCHANGED dom

\* if (S() === MaxVal) throw new Error()
StepThrowIf ==
    /\ InBody
    /\ Instr.op = "throwIf"
    /\ subscribers' = GetterSubscribers(subscribers, Instr.a, currentEffect)
    /\ cleanupFunctions' = GetterCleanup(cleanupFunctions, Instr.a, currentEffect)
    /\ log' = LogRead(log, Top.eff, Instr.a)
    /\ IF value[Instr.a] = MaxVal
       THEN exc' = TRUE /\ frames' = frames
       ELSE exc' = exc /\ frames' = Advance(frames)
    /\ UNCHANGED << value, fnOf, isDisposed, handle, currentEffect, effectStack,
                    hist, opsLeft, runs, wlog >>
    /\ UNCHANGED dom

\* createEffect(Body[b]) inside a body
StepCreate ==
    /\ InBody
    /\ Instr.op = "create"
    /\ CallCreateEffect(Instr.a, Advance(frames))
    /\ UNCHANGED << value, subscribers, isDisposed, cleanupFunctions, handle,
                    exc, hist, opsLeft, log, wlog >>
    /\ UNCHANGED dom

\* if (S() === 1) createEffect(Body[b])
StepCreateIf ==
    /\ InBody
    /\ Instr.op = "createIf"
    /\ subscribers' = GetterSubscribers(subscribers, Instr.a, currentEffect)
    /\ cleanupFunctions' = GetterCleanup(cleanupFunctions, Instr.a, currentEffect)
    /\ log' = LogRead(log, Top.eff, Instr.a)
    /\ IF value[Instr.a] = 1
       THEN CallCreateEffect(Instr.b, Advance(frames))
       ELSE /\ frames' = Advance(frames)
            /\ UNCHANGED << fnOf, currentEffect, effectStack, runs >>
    /\ UNCHANGED << value, isDisposed, handle, exc, hist, opsLeft, wlog >>
    /\ UNCHANGED dom

\* const v = S(); setS(v < MaxVal ? v + 1 : MaxVal)
StepIncr ==
    /\ InBody
    /\ Instr.op = "incr"
    /\ cleanupFunctions' = GetterCleanup(cleanupFunctions, Instr.a, currentEffect)
    /\ log' = LogRead(log, Top.eff, Instr.a)
    /\ CallSetter(Instr.a,
                  IF value[Instr.a] < MaxVal THEN value[Instr.a] + 1 ELSE MaxVal,
                  Advance(frames),
                  GetterSubscribers(subscribers, Instr.a, currentEffect))
    /\ UNCHANGED << fnOf, isDisposed, handle, currentEffect, effectStack, exc,
                    hist, opsLeft, runs >>
    /\ UNCHANGED dom

\* The disposer a body calls: d1, what createEffect returned for the first
\* effect, or d, what the latest createEffect call to return has returned
\* (Null while that call has not returned).
Returned == {e \in Effects : handle[e]}
DisposeTarget(which) ==
    IF which = "last"
    THEN IF Returned = {} THEN Null
         ELSE CHOOSE e \in Returned : \A o \in Returned : o <= e
    ELSE IF handle[1] THEN 1 ELSE Null

\* if (d1) d1()  /  if (d) d()
StepDispose ==
    /\ InBody
    /\ Instr.op = "dispose"
    /\ IF DisposeTarget(Instr.a) # Null
       THEN CallDispose(DisposeTarget(Instr.a))
       ELSE UNCHANGED << isDisposed, subscribers, cleanupFunctions >>
    /\ frames' = Advance(frames)
    /\ UNCHANGED << value, fnOf, handle, currentEffect, effectStack, exc, hist,
                    opsLeft, runs, log, wlog >>
    /\ UNCHANGED dom

\* fn() returned: the finally block runs and effect() returns; when effect()
\* was called by createEffect, createEffect returns `dispose`.
EffectReturn ==
    /\ frames # <<>>
    /\ ~exc
    /\ Top.kind = "effect"
    /\ Top.pc > Len(Body[fnOf[Top.eff]])
    /\ Finally
    /\ handle' = IF Top.ctor THEN [handle EXCEPT ![Top.eff] = TRUE] ELSE handle
    /\ frames' = Front(frames)
    /\ UNCHANGED << value, subscribers, fnOf, isDisposed, cleanupFunctions, exc,
                    hist, opsLeft, runs, log, wlog >>
    /\ UNCHANGED dom

\* ------------------------------------------- dispose(), statement by statement
InDispose ==
    /\ frames # <<>>
    /\ ~exc
    /\ Top.kind = "dispose"

DisposePhase == IF Top.pc <= Len(DisposeOrder) THEN DisposeOrder[Top.pc] ELSE "return"

\* dispose() of effect e called by top-level code
TopDisposeBegin(e) ==
    /\ CanCall
    /\ handle[e]
    /\ hist' = Append(hist, HistOp("dispose", "", e))
    /\ opsLeft' = opsLeft - 1
    /\ frames' = Append(frames, DisposeFrame(e))
    /\ UNCHANGED << value, subscribers, fnOf, isDisposed, cleanupFunctions,
                    handle, currentEffect, effectStack, exc, runs, log, wlog >>
    /\ UNCHANGED dom

\* if (d) d() in an effect body
StepDisposeBegin ==
    /\ InBody
    /\ Instr.op = "dispose"
    /\ frames' = IF DisposeTarget(Instr.a) # Null
                 THEN Append(Advance(frames), DisposeFrame(DisposeTarget(Instr.a)))
                 ELSE Advance(frames)
    /\ UNCHANGED << value, subscribers, fnOf, isDisposed, cleanupFunctions,
                    handle, currentEffect, effectStack, exc, hist, opsLeft, runs,
                    log, wlog >>
    /\ UNCHANGED dom

\* isDisposed = true
DisposeSetFlag ==
    /\ InDispose
    /\ DisposePhase = "flag"
    /\ isDisposed' = [isDisposed EXCEPT ![Top.eff] = TRUE]
    /\ frames' = Advance(frames)
    /\ UNCHANGED << value, subscribers, fnOf, cleanupFunctions, handle,
                    currentEffect, effectStack, exc, hist, opsLeft, runs, log,
                    wlog >>
    /\ UNCHANGED dom

\* One turn of cleanupFunctions.forEach(fn => fn())
DisposeInvoke ==
    /\ InDispose
    /\ DisposePhase = "forEach"
    /\ Top.idx <= Len(cleanupFunctions[Top.eff])
    /\ subscribers' = DisposeSubscribers(subscribers,
                           << cleanupFunctions[Top.eff][Top.idx] >>, currentEffect)
    /\ frames' = [frames EXCEPT ![Len(frames)].idx = @ + 1]
    /\ UNCHANGED << value, fnOf, isDisposed, cleanupFunctions, handle,
                    currentEffect, effectStack, exc, hist, opsLeft, runs, log,
                    wlog >>
    /\ UNCHANGED dom

\* The forEach has visited every closure.
DisposeInvoked ==
    /\ InDispose
    /\ DisposePhase = "forEach"
    /\ Top.idx > Len(cleanupFunctions[Top.eff])
    /\ frames' = Advance(frames)
    /\ UNCHANGED << value, subscribers, fnOf, isDisposed, cleanupFunctions,
                    handle, currentEffect, effectStack, exc, hist, opsLeft, runs,
                    log, wlog >>
    /\ UNCHANGED dom

\* cleanupFunctions.clear()
DisposeClearSet ==
    /\ InDispose
    /\ DisposePhase = "clear"
    /\ cleanupFunctions' = DisposeClear(cleanupFunctions, Top.eff)
    /\ frames' = Advance(frames)
    /\ UNCHANGED << value, subscribers, fnOf, isDisposed, handle, currentEffect,
                    effectStack, exc, hist, opsLeft, runs, log, wlog >>
    /\ UNCHANGED dom

\* dispose() returns to its caller
DisposeReturn ==
    /\ InDispose
    /\ DisposePhase = "return"
    /\ frames' = Front(frames)
    /\ UNCHANGED << value, subscribers, fnOf, isDisposed, cleanupFunctions,
                    handle, currentEffect, effectStack, exc, hist, opsLeft, runs,
                    log, wlog >>
    /\ UNCHANGED dom

\* ------------------------------------------------------ steps of a setter
\* One turn of `subs.forEach(fn => { subscribers.add(fn); fn(); })`
SetterNext ==
    /\ frames # <<>>
    /\ ~exc
    /\ Top.kind = "setter"
    /\ Top.idx <= Len(Top.subs)
    /\ LET fn == Top.subs[Top.idx]
           ran == IF EffectSkips(isDisposed, fn) THEN 0 ELSE runs[fn] + 1
           fr == [frames EXCEPT ![Len(frames)].idx = @ + 1,
                                ![Len(frames)].inv =
                                    Append(@, [eff |-> fn, run |-> ran])]
       IN /\ subscribers' = SetterReAdd(subscribers, Top.sig, fn)
          /\ CallEffect(fn, FALSE, fr)
    /\ UNCHANGED << value, fnOf, isDisposed, cleanupFunctions, handle, exc,
                    hist, opsLeft, log, wlog >>
    /\ UNCHANGED dom

\* forEach is done: setter returns
SetterReturn ==
    /\ frames # <<>>
    /\ ~exc
    /\ Top.kind = "setter"
    /\ Top.idx > Len(Top.subs)
    /\ frames' = Front(frames)
    /\ UNCHANGED << value, subscribers, fnOf, isDisposed, cleanupFunctions,
                    handle, currentEffect, effectStack, exc, hist, opsLeft, runs,
                    log, wlog >>
    /\ UNCHANGED dom

\* ------------------------------------------------------------- exceptions
\* The exception leaves the innermost call: effect() runs its finally block,
\* setter() and createEffect() have no handler.
Unwind ==
    /\ exc
    /\ frames # <<>>
    /\ IF Top.kind = "effect"
       THEN OnThrow
       ELSE UNCHANGED << currentEffect, effectStack >>
    /\ frames' = Front(frames)
    /\ UNCHANGED << value, subscribers, fnOf, isDisposed, cleanupFunctions,
                    handle, exc, hist, opsLeft, runs, log, wlog >>
    /\ UNCHANGED dom

\* The exception reaches the top-level caller, which catches it.
Catch ==
    /\ exc
    /\ frames = <<>>
    /\ exc' = FALSE
    /\ hist' = [hist EXCEPT ![Len(hist)].threw = TRUE]
    /\ UNCHANGED << value, subscribers, fnOf, isDisposed, cleanupFunctions,
                    handle, currentEffect, effectStack, frames, opsLeft, runs,
                    log, wlog >>
    /\ UNCHANGED dom

\* ------------------------------------------------------------------- Spec
Next ==
    \/ \E b \in TopBodies : TopCreate(b)
    \/ \E s \in Signals, v \in Values : TopWrite(s, v)
    \/ \E e \in Effects : TopDispose(e)
    \/ StepRead
    \/ StepIf
    \/ StepCopy
    \/ StepThrowIf
    \/ StepCreate
    \/ StepDispose
    \/ EffectReturn
    \/ SetterNext
    \/ SetterReturn
    \/ Unwind
    \/ Catch

Spec == Init /\ [][Next]_vars

\* ------------------------------------------------- propagation scenarios
\* Top-level code that builds a chain X -> Copier -> Y -> Inner beside
\* recording effects on X, writes X and disposes effects.
RecBodies == {"Rec", "Copier", "Inner"}

InitRec == Start(MaxOps + 1)

NextRec ==
    \/ \E b \in RecBodies : TopCreate(b)
    \/ \E v \in Values : TopWrite("X", v)
    \/ \E e \in Effects : TopDispose(e)
    \/ StepRead
    \/ StepCopy
    \/ EffectReturn
    \/ SetterNext
    \/ SetterReturn

SpecRec == InitRec /\ [][NextRec]_vars

\* ----------------------------------------------------- disposal scenarios
\* Top-level code that creates recording effects on X and effects that call
\* the latest disposer from their body, reads and writes X and Y, and
\* disposes effects.
DispBodies == {"Killer", "Rec"}

InitDisp == Start(MaxOps)

NextDisp ==
    \/ \E b \in DispBodies : TopCreate(b)
    \/ \E s \in {"X", "Y"}, v \in Values : TopWrite(s, v)
    \/ \E e \in Effects : TopDispose(e)
    \/ \E s \in {"X", "Y"} : TopRead(s)
    \/ StepRead
    \/ StepDispose
    \/ EffectReturn
    \/ SetterNext
    \/ SetterReturn

SpecDisp == InitDisp /\ [][NextDisp]_vars

\* ------------------------------------------- subscriptions during a replay
\* Top-level code that creates recording effects on X and effects on X that
\* create one more recording effect when they see X = 1, and writes X.
GrowBodies == {"GrowOnce", "Rec"}

InitGrow == Start(MaxOps + 1)

NextGrow ==
    \/ \E b \in GrowBodies : TopCreate(b)
    \/ \E v \in Values : TopWrite("X", v)
    \/ StepRead
    \/ StepCreateIf
    \/ EffectReturn
    \/ SetterNext
    \/ SetterReturn

SpecGrow == InitGrow /\ [][NextGrow]_vars

\* ------------------------------------------------------ re-entrant writes
\* Top-level code that creates recording effects on X and effects that read
\* X and write it back one higher up to the ceiling MaxVal, writes X and
\* disposes effects.
ClimbBodies == {"Climb", "Rec"}

InitClimb == Start(MaxOps + 1)

\* setX((X() + 1) % (MaxVal + 1)): reads X and writes it back a different
\* value, whatever it read. The host call stack is cut off at MaxDepth nested
\* effect runs.
StepBump ==
    /\ InBody
    /\ Instr.op = "bump"
    /\ Len(effectStack) < MaxDepth
    /\ cleanupFunctions' = GetterCleanup(cleanupFunctions, Instr.a, currentEffect)
    /\ log' = LogRead(log, Top.eff, Instr.a)
    /\ CallSetter(Instr.a, (value[Instr.a] + 1) % (MaxVal + 1), Advance(frames),
                  GetterSubscribers(subscribers, Instr.a, currentEffect))
    /\ UNCHANGED << fnOf, isDisposed, handle, currentEffect, effectStack, exc,
                    hist, opsLeft, runs >>
    /\ UNCHANGED dom

NextClimb ==
    \/ \E b \in ClimbBodies : TopCreate(b)
    \/ \E v \in Values : TopWrite("X", v)
    \/ \E e \in Effects : TopDispose(e)
    \/ StepRead
    \/ StepIncr
    \/ EffectReturn
    \/ SetterNext
    \/ SetterReturn

SpecClimb == InitClimb /\ [][NextClimb]_vars

\* The JavaScript engine runs a call to completion: a step that can be taken
\* is taken.
FairClimb == SpecClimb /\ WF_vars(NextClimb)

\* ------------------------------------------------------- unguarded cycle
\* Top-level code that creates recording effects on X and effects that read
\* X and write it back changed, and writes X.
LoopBodies == {"Bump", "Rec"}

InitLoop == Start(MaxOps + 1)

NextLoop ==
    \/ \E b \in LoopBodies : TopCreate(b)
    \/ \E v \in Values : TopWrite("X", v)
    \/ StepRead
    \/ StepBump
    \/ EffectReturn
    \/ SetterNext
    \/ SetterReturn

SpecLoop == InitLoop /\ [][NextLoop]_vars

FairLoop == SpecLoop /\ WF_vars(NextLoop)

\* ------------------------------------------------------ sequential writes
\* Top-level code that creates effects reading X and Y and effects that
\* write X and then Y from F, and writes the three signals.
PairBodies == {"Both", "Double"}

InitPair == Start(MaxOps)

NextPair ==
    \/ \E b \in PairBodies : TopCreate(b)
    \/ \E s \in Signals, v \in Values : TopWrite(s, v)
    \/ StepRead
    \/ StepCopy
    \/ EffectReturn
    \/ SetterNext
    \/ SetterReturn

SpecPair == InitPair /\ [][NextPair]_vars

\* ------------------------------------------------- dispose, step by step
\* Top-level code that creates effects reading X and Y and effects that
\* dispose the latest effect between their two reads, writes X and Y and
\* disposes effects; dispose() is followed statement by statement.
StepBodies == {"Both", "Killer"}

InitStep == Start(MaxOps)

NextStep ==
    \/ \E b \in StepBodies : TopCreate(b)
    \/ \E s \in {"X", "Y"}, v \in Values : TopWrite(s, v)
    \/ \E e \in Effects : TopDisposeBegin(e)
    \/ StepRead
    \/ StepDisposeBegin
    \/ DisposeSetFlag
    \/ DisposeInvoke
    \/ DisposeInvoked
    \/ DisposeClearSet
    \/ DisposeReturn
    \/ EffectReturn
    \/ SetterNext
    \/ SetterReturn

SpecStep == InitStep /\ [][NextStep]_vars

\* ------------------------------------------------------- number values
\* Top-level code that creates a recording effect on X and writes NaN, +0,
\* -0 and 1 to X, which was created with one of them.
NumBodies == {"Rec"}

InitNum == StartWith(MaxOps + 1, {[s \in Signals |-> v] : v \in NumValues})

NextNum ==
    \/ \E b \in NumBodies : TopCreate(b)
    \/ \E v \in NumValues : TopWrite("X", v)
    \/ TopRead("X")
    \/ StepRead
    \/ EffectReturn
    \/ SetterNext
    \/ SetterReturn

SpecNum == InitNum /\ [][NextNum]_vars

\* ------------------------------------------------------- repeated reads
\* Top-level code that creates effects reading X twice in a run and
\* recording effects on X, and writes X.
TwiceBodies == {"Twice", "Rec"}

InitTwice == Start(MaxOps + 1)

NextTwice ==
    \/ \E b \in TwiceBodies : TopCreate(b)
    \/ \E v \in Values : TopWrite("X", v)
    \/ StepRead
    \/ EffectReturn
    \/ SetterNext
    \/ SetterReturn

SpecTwice == InitTwice /\ [][NextTwice]_vars

\* -------------------------------------------- nested and re-entrant writes
\* Top-level code that creates effects reading X and Y, effects copying X to
\* Y and Y to X, and effects writing X back one higher, and writes X. No
\* body throws and no disposer is called.
NestBodies == {"Both", "Copier", "Back", "Climb"}

InitNest == Start(MaxOps + 1)

NextNest ==
    \/ \E b \in NestBodies : TopCreate(b)
    \/ \E v \in Values : TopWrite("X", v)
    \/ StepRead
    \/ StepCopy
    \/ StepIncr
    \/ EffectReturn
    \/ SetterNext
    \/ SetterReturn

SpecNest == InitNest /\ [][NextNest]_vars

\* ------------------------------------------------------ directive layer
\* The page loads, hamsterx processes document.body, and the page's script
\* calls init, cleanup and getData, writes to data objects getData gave it,
\* and the user clicks.
coreVars == << value, subscribers, fnOf, isDisposed, cleanupFunctions, handle,
               currentEffect, effectStack, frames, exc, runs, log, wlog >>

\* A call made by top-level code is over, an exception having ended it or not.
Settle(D) == [D EXCEPT !.exc = FALSE]
DomOp(op, a, v, D) == [op |-> op, a |-> a, v |-> v, threw |-> D.exc]
CanCallDom == CanCall /\ dom.loaded
Attached(D, x) == x = BodyEl \/ IsDescendant(D, x, BodyEl)

\* index.js: autoInit calls init() on document.body
AutoInit ==
    /\ ~dom.loaded
    /\ \E D \in {ProcessElement(dom, BodyEl)} :
          /\ dom' = [Settle(D) EXCEPT !.loaded = TRUE]
          /\ hist' = Append(hist, DomOp("init", "body", 0, D))
    /\ UNCHANGED << coreVars, opsLeft >>

\* init(el)
CallInit(el) ==
    /\ CanCallDom
    /\ \E D \in {ProcessElement(dom, el)} :
          /\ dom' = Settle(D)
          /\ hist' = Append(hist, DomOp("init", dom.els[el].role, 0, D))
    /\ opsLeft' = opsLeft - 1
    /\ UNCHANGED coreVars

\* cleanup(el)
CallCleanup(el) ==
    /\ CanCallDom
    /\ \E D \in {Cleanup(dom, el)} :
          /\ dom' = Settle(D)
          /\ hist' = Append(hist, DomOp("cleanup", dom.els[el].role, 0, D))
    /\ opsLeft' = opsLeft - 1
    /\ UNCHANGED coreVars

\* getData(el); the script keeps the data object it is given
CallGetData(el) ==
    /\ CanCallDom
    /\ XData(dom.els[el].role)
    /\ Attached(dom, el)
    /\ dom' = IF dom.els[el].ctx = Null THEN dom
              ELSE [dom EXCEPT !.held = @ \cup {dom.els[el].ctx}]
    /\ hist' = Append(hist, DomOp("getData", dom.els[el].role, dom.els[el].ctx, dom))
    /\ opsLeft' = opsLeft - 1
    /\ UNCHANGED coreVars

\* The user clicks the component.
Click ==
    /\ CanCallDom
    /\ dom.els[CompEl].listeners # <<>>
    /\ dom' = Dispatch(dom, dom.els[CompEl].listeners, 1)
    /\ hist' = Append(hist, DomOp("click", "comp", 0, dom))
    /\ opsLeft' = opsLeft - 1
    /\ UNCHANGED coreVars

\* data.count = v / data.n = v on a data object the script holds
UserWrite(c, p, v) ==
    /\ CanCallDom
    /\ c \in dom.held
    /\ dom.ctxs[c].data[p].k = "sig"
    /\ \E D \in {SignalSet(dom, dom.ctxs[c].data[p].sig, v)} :
          /\ dom' = Settle(D)
          /\ hist' = Append(hist, DomOp("set", p, c, D))
    /\ opsLeft' = opsLeft - 1
    /\ UNCHANGED coreVars

\* data.items = [...] with a new array of n items
UserWriteItems(c, n) ==
    /\ CanCallDom
    /\ c \in dom.held
    /\ dom.ctxs[c].data["items"].k = "sig"
    /\ \E D \in {SignalSet([dom EXCEPT !.arrs = @ + 1],
                             dom.ctxs[c].data["items"].sig,
                             [arr |-> dom.arrs + 1, len |-> n])} :
          /\ dom' = Settle(D)
          /\ hist' = Append(hist, DomOp("set", "items", c, D))
    /\ opsLeft' = opsLeft - 1
    /\ UNCHANGED coreVars

InitDom ==
    /\ StartCore(MaxOps, {[X |-> 0, Y |-> 0, F |-> 0]})
    /\ dom \in {DomStart(core, tpl, len) :
                   core \in Cores, tpl \in Templates, len \in 1..MaxItems}

NextDom ==
    \/ AutoInit
    \/ \E el \in {BodyEl, CompEl} : CallInit(el)
    \/ \E el \in {BodyEl, CompEl, InnerEl} : CallCleanup(el)
    \/ \E el \in DOMAIN dom.els : CallGetData(el)
    \/ Click
    \/ \E c \in DOMAIN dom.ctxs, p \in {"count", "n"}, v \in Values : UserWrite(c, p, v)
    \/ \E c \in DOMAIN dom.ctxs, n \in 0..MaxItems : UserWriteItems(c, n)

SpecDom == InitDom /\ [][NextDom]_vars

\* ------------------------------------------------- a binding that throws
\* The same page with x-text="count === N ? absent.value : count" on the
\* component's span: the page loads and the script takes the component's
\* data and writes count, and the user clicks.
BindPage ==
    << Element("body", 0), Element("comp", 1), Element("chk", 2),
       Element("inner", 2), Element("itxt", 4), Element("list", 2) >>

InitBind ==
    /\ StartCore(MaxOps, {[X |-> 0, Y |-> 0, F |-> 0]})
    /\ dom \in {[DomStart(core, tpl, len) EXCEPT !.els = BindPage] :
                   core \in Cores, tpl \in Templates, len \in 1..MaxItems}

NextBind ==
    \/ AutoInit
    \/ CallGetData(CompEl)
    \/ \E c \in DOMAIN dom.ctxs, v \in Values : UserWrite(c, "count", v)
    \/ Click

SpecBind == InitBind /\ [][NextBind]_vars

\* ----------------------------------------------------------------- claims
SetterFrames == {i \in DOMAIN frames : frames[i].kind = "setter"}
Effs(inv) == [k \in DOMAIN inv |-> inv[k].eff]
Vals(lg) == [k \in DOMAIN lg |-> lg[k].val]

\* The reads effect e made of signal s during its run number r.
ReadsOf(e, s, r) == {k \in DOMAIN log[e] : log[e][k].sig = s /\ log[e][k].run = r}

Create(b, e) == HistOp("create", b, e)
Write(s, v) == HistOp("write", s, v)

\* C1: a value-changing write stores the value and replays, in its own
\* forEach, each effect that was subscribed when the write began exactly once
\* before it returns; the reads of the written signal made by a run the write
\* started return the written value or a later one.  Signal at 0, one
\* recording effect, write(1), write(2), write(2): the record is 0, 1, 2.
C1_WritePropagates ==
    /\ \A s \in Signals : value[s] = Last(wlog[s])
    /\ \A i \in SetterFrames :
        LET f == frames[i] IN
        /\ f.idx - 1 <= Len(f.pre)
        /\ Effs(f.inv) = SubSeq(f.pre, 1, f.idx - 1)
        /\ (f.idx > Len(f.subs) => f.idx - 1 = Len(f.pre))
        /\ \A k \in DOMAIN f.inv :
            /\ f.inv[k].run = 0 <=> isDisposed[f.inv[k].eff]
            /\ \A r \in ReadsOf(f.inv[k].eff, f.sig, f.inv[k].run) :
                LET rd == log[f.inv[k].eff][r] IN
                /\ rd.at >= f.at
                /\ rd.val = wlog[f.sig][rd.at]
    /\ ( /\ Quiescent
         /\ wlog["X"][1] = 0
         /\ hist = << Create("Rec", 1), Write("X", 1), Write("X", 2), Write("X", 2) >>
       ) => Vals(log[1]) = << 0, 1, 2 >>

\* C1 witness: the recorded example has run to its end, the last write having
\* been made while the recording effect was subscribed.
C1_Witness ==
    /\ Quiescent
    /\ hist = << Create("Rec", 1), Write("X", 1), Write("X", 2), Write("X", 2) >>
    /\ subscribers["X"] = << 1 >>
    /\ runs[1] = 3

\* C2: a write of the value the signal already holds is a no-op, at top
\* level and inside an effect body: no subscriber is invoked, and the value,
\* the subscriber set of the written signal and the tracking context stay as
\* they were.
C2_EqualWriteIsNoOp ==
    [][ /\ \A s \in Signals :
            (Quiescent /\ hist' = Append(hist, Write(s, value[s])))
                => UNCHANGED << value, subscribers, fnOf, isDisposed,
                                cleanupFunctions, handle, currentEffect,
                                effectStack, frames, exc, runs, log, wlog >>
        /\ (InBody /\ Instr.op = "copy" /\ value[Instr.b] = value[Instr.a])
                => /\ UNCHANGED << value, currentEffect, effectStack, runs, wlog >>
                   /\ subscribers'[Instr.b] = subscribers[Instr.b]
                   /\ frames' = Advance(frames)
      ]_vars

\* C2 witness: write(1) on a flag created with 1, after an effect subscribed
\* to it.
C2_Witness ==
    /\ Quiescent
    /\ hist = << Create("Branch", 1), Write("F", 1) >>
    /\ wlog["F"] = << 1 >>
    /\ subscribers["F"] = << 1 >>

\* C3: when createEffect returns, the body has run and the new effect is in
\* the subscriber set of every signal its first run read.
C3_CreateEffectSubscribes ==
    [][ \A e \in Effects :
            (~handle[e] /\ handle'[e])
                => /\ runs'[e] >= 1
                   /\ \A s \in Signals :
                        ReadsOf(e, s, 1) # {} => e \in Range(subscribers'[s])
      ]_vars

\* C4: once dispose() of an effect has run, no step executes its body again:
\* its invocation counter is frozen.
C4_DisposedNeverRuns ==
    [][ \A e \in Effects : isDisposed[e] => runs'[e] = runs[e] ]_vars

\* C4 witness: a write replays a snapshot holding a disposed effect, and the
\* call of its rerun callback has returned without running the body.
C4_Witness ==
    \E i \in SetterFrames : \E k \in DOMAIN frames[i].inv :
        /\ frames[i].inv[k].run = 0
        /\ isDisposed[frames[i].inv[k].eff]
        /\ runs[frames[i].inv[k].eff] >= 1

\* C5 (I1): no subscriber set contains an effect whose dispose() has run.
C5_DisposedNotSubscribed ==
    \A e \in Effects, s \in Signals :
        isDisposed[e] => e \notin Range(subscribers[s])

\* The signals whose subscriber set holds effect e.
SubscribedTo(e) == {s \in Signals : e \in Range(subscribers[s])}
\* The signals effect e read during its run number r / during any run.
ReadIn(e, r) == {s \in Signals : ReadsOf(e, s, r) # {}}
EverRead(e) == {log[e][k].sig : k \in DOMAIN log[e]}

C7_OuterTrackingSurvivesNesting ==
    /\ (frames # <<>> /\ Top.kind = "effect" /\ ~exc) => currentEffect = Top.eff
    /\ (Quiescent /\ hist = << Create("Outer", 1) >>)
        => /\ fnOf[2] = "Inner"
           /\ subscribers["X"] = << 1 >>
           /\ subscribers["F"] = << 1 >>
           /\ subscribers["Y"] = << 2 >>

\* C7 witness: the body of Outer is about to read F, the createEffect it made
\* having returned the disposer of Inner.
C7_Witness ==
    /\ InBody
    /\ fnOf[Top.eff] = "Outer"
    /\ Top.pc = 3
    /\ \E b \in Effects : fnOf[b] = "Inner" /\ handle[b] /\ b > Top.eff

\* The top-level calls made after the first one are all writes to signals of S.
OnlyWritesTo(S) ==
    \A k \in 2..Len(hist) : hist[k].op = "write" /\ hist[k].a \in S

Executing ==
    LET fs == SelectSeq(frames, LAMBDA f : f.kind = "effect")
    IN [k \in DOMAIN fs |-> fs[k].eff]

\* C9 (I5): the effect stack holds the effects whose body is executing, in
\* nesting order; currentEffect is its top, null when it is empty; both are
\* empty/null when no call is in progress.
C9_StackIsNesting ==
    /\ effectStack = Executing
    /\ Len(effectStack) = Cardinality({i \in DOMAIN frames : frames[i].kind = "effect"})
    /\ currentEffect = IF effectStack = <<>> THEN Null ELSE Last(effectStack)
    /\ frames = <<>> => (effectStack = <<>> /\ currentEffect = Null)

\* C9 witness: an effect created inside a re-run triggered by a write is
\* running, two bodies deep, and returns to top level afterwards.
C9_Witness ==
    /\ Len(effectStack) = 2
    /\ frames[1].kind = "setter"
    /\ ~exc

\* C10: when a body throws, the exception leaves one call per step: leaving
\* an effect pops it and makes the previous top of the stack (or null) the
\* current effect; no setter and no createEffect stops it (the effect under
\* construction never returns a disposer); it reaches the top-level caller
\* with the stack empty and currentEffect null.
C10_ThrowRestoresAndPropagates ==
    [][ exc =>
          IF frames = <<>>
          THEN /\ effectStack = <<>> /\ currentEffect = Null
               /\ hist' = [hist EXCEPT ![Len(hist)].threw = TRUE]
          ELSE /\ exc'
               /\ frames' = Front(frames)
               /\ handle' = handle
               /\ IF Top.kind = "effect"
                  THEN /\ effectStack = Append(effectStack', Top.eff)
                       /\ currentEffect' = IF effectStack' = <<>> THEN Null
                                           ELSE Last(effectStack')
                       /\ effectStack' = [k \in 1..Len(Executing) - 1 |-> Executing[k]]
                  ELSE UNCHANGED << effectStack, currentEffect >>
      ]_vars

\* C10 witness: a body three calls deep under a top-level write has thrown.
C10_Witness ==
    /\ exc
    /\ Len(frames) >= 4
    /\ frames[1].kind = "setter"
    /\ Top.kind = "effect"

\* C11 (I2): a getter called while no effect is executing (currentEffect is
\* null) returns the signal's current value, raises nothing and changes no
\* value, subscriber set, cleanup set, disposed flag or tracking state.
C11_UntrackedReadChangesNothing ==
    [][ \A s \in Signals :
          (currentEffect = Null /\ hist' = Append(hist, Last(hist'))
             /\ Last(hist').op = "read" /\ Last(hist').a = s)
          => /\ Last(hist').v = value[s]
             /\ ~Last(hist').threw /\ ~exc'
             /\ UNCHANGED << value, subscribers, cleanupFunctions, isDisposed,
                             currentEffect, effectStack, frames, runs >>
      ]_vars

\* C11 witness: top-level code has just read X, which an effect is
\* subscribed to and whose value a write has changed.
C11_Witness ==
    /\ hist # <<>>
    /\ Last(hist).op = "read" /\ Last(hist).a = "X"
    /\ Last(hist).v # 0
    /\ subscribers["X"] # <<>>

\* The position of effect e in the sequence q (0 when absent).
Pos(q, e) == IF e \in Range(q) THEN CHOOSE k \in DOMAIN q : q[k] = e ELSE 0
\* The rank of the first read of signal s that effect e made, among all reads.
FirstSub(e, s) ==
    LET ks == {k \in DOMAIN log[e] : log[e][k].sig = s}
    IN IF ks = {} THEN 0
       ELSE log[e][CHOOSE k \in ks : \A o \in ks : k <= o].seq

\* C12 as claimed (ordering guarantee): of two effects invoked by a write to
\* S, the one invoked first is the one that first subscribed to S first,
\* whatever writes and subscriptions came before.
C12_FirstSubscribedRunsFirst ==
    \A i \in SetterFrames :
        LET f == frames[i] IN
        \A j, k \in DOMAIN f.inv :
            j < k => FirstSub(f.inv[j].eff, f.sig) < FirstSub(f.inv[k].eff, f.sig)

GrowHist ==
    << Create("GrowOnce", 1), Create("Rec", 2), Write("X", 1), Write("X", 2) >>

\* C12 amended: of two effects invoked by a write to S, the one invoked first
\* is the one that stood first in S's subscriber set when the write began.
\* With an effect (1) that creates a reader of X (3) during the replay of the
\* write X := 1, ahead of the re-adding of an older reader of X (2), the
\* write X := 2 invokes 1, 3, 2.
C12_SetOrderRunsFirst ==
    /\ \A i \in SetterFrames :
        LET f == frames[i] IN
        \A j, k \in DOMAIN f.inv :
            j < k => /\ Pos(f.pre, f.inv[j].eff) > 0
                     /\ Pos(f.pre, f.inv[j].eff) < Pos(f.pre, f.inv[k].eff)
    /\ ( /\ hist = GrowHist
         /\ wlog["X"][1] = 0
         /\ frames # <<>>
         /\ frames[1].idx > Len(frames[1].subs)
       ) => Effs(frames[1].inv) = << 1, 3, 2 >>

\* C12 witness: the write X := 2 has invoked effect 3 before effect 2, which
\* first read X before effect 3 existed.
C12_Witness ==
    /\ hist = GrowHist
    /\ Len(frames) = 1
    /\ Effs(frames[1].inv) = << 1, 3, 2 >>
    /\ FirstSub(2, "X") < FirstSub(3, "X")

\* An effect that raises X up to the ceiling exists and is not disposed.
LiveClimb == \E e \in Effects : fnOf[e] = "Climb" /\ ~isDisposed[e]

\* C13: with effects that read X and write it back one higher while it is
\* below the ceiling MaxVal (and write MaxVal itself once it is reached),
\* every createEffect and every write to X returns: the calls never nest
\* deeper than one setter and one effect per value, and each call in
\* progress comes to its end, with X at the ceiling if such an effect is live.
C13_ClimbTerminates ==
    /\ [](Len(frames) <= 2 * (MaxVal + 1))
    /\ (~Quiescent) ~> (Quiescent /\ (LiveClimb => value["X"] = MaxVal))

\* C13 witness: a top-level write put X back to 0 under a live climbing
\* effect, which re-ran once per value and left X at the ceiling.
C13_Witness ==
    /\ Quiescent
    /\ hist # <<>>
    /\ Last(hist) = Write("X", 0)
    /\ fnOf[1] = "Climb" /\ ~isDisposed[1]
    /\ runs[1] = 2 * (MaxVal + 1)
    /\ value["X"] = MaxVal

ChainHist(v) ==
    << Create("Copier", 1), Create("Rec", 2), Create("Inner", 3), Write("X", v) >>

\* C14: propagation is synchronous and depth-first. Every call in progress
\* was made by the call below it: above a setter stands the subscriber it
\* invoked last (it invokes the next one only when that run, with all the
\* writes it made, is over), above an effect the setter or the createEffect
\* its body called. With Copier (1: Y := X), Rec (2: reads X) and Inner
\* (3: reads Y), a write to X has made, when it returns, the run of 1, then
\* the run of 3 that 1's write to Y triggered, then the run of 2.
C14_DepthFirst ==
    /\ \A i \in DOMAIN frames :
        /\ i = 1 => frames[i].kind = "setter" \/ frames[i].ctor
        /\ i < Len(frames) =>
            IF frames[i].kind = "setter"
            THEN /\ frames[i].inv # <<>>
                 /\ frames[i + 1].kind = "effect"
                 /\ ~frames[i + 1].ctor
                 /\ frames[i + 1].eff = Last(frames[i].inv).eff
            ELSE /\ frames[i].pc > 1
                 /\ frames[i + 1].kind = "setter" \/ frames[i + 1].ctor
    /\ \A v \in Values \ {0} :
        (Quiescent /\ hist = ChainHist(v)) =>
            /\ \A e \in 1..3 : runs[e] = 2
            /\ Last(log[1]).seq < Last(log[3]).seq
            /\ Last(log[3]).seq < Last(log[2]).seq
            /\ Last(log[3]).val = v

\* C14 witness: under the write to X, Copier's write to Y is replaying Inner
\* while Rec, next in X's snapshot, is yet to be invoked.
C14_Witness ==
    /\ \E v \in Values : hist = ChainHist(v)
    /\ Len(frames) = 4
    /\ frames[1].subs = << 1, 2 >>
    /\ Effs(frames[1].inv) = << 1 >>
    /\ Top.eff = 3

\* C15: a write to X made by a subscriber during the replay of a write to X
\* does not corrupt X's subscriber set. When a write to X returns, whatever
\* writes to X its subscribers made meanwhile: it has invoked every effect of
\* its snapshot, in order, none skipped; every such effect that is not
\* disposed has read X since the last change of X's value; and X's subscriber
\* set holds every effect it held when the write began, once each.
C15_ReentrantWriteKeepsSubscribers ==
    [][ (frames # <<>> /\ ~exc /\ Top.kind = "setter" /\ frames' = Front(frames))
        => LET f == Top
               s == f.sig
           IN /\ Effs(f.inv) = f.pre
              /\ Cardinality(Range(subscribers'[s])) = Len(subscribers'[s])
              /\ \A e \in Range(f.pre) :
                    /\ e \in Range(subscribers'[s])
                    /\ ~isDisposed[e] =>
                          /\ Last(log[e]).sig = s
                          /\ Last(log[e]).at = Len(wlog[s])
                          /\ Last(log[e]).val = value[s]
      ]_vars

\* C15 witness: a top-level write to X with a recording effect and a
\* climbing effect in its snapshot is about to return, after the climbing
\* effect wrote X again during the replay.
C15_Witness ==
    /\ Len(frames) = 1
    /\ Top.kind = "setter"
    /\ Top.idx > Len(Top.subs)
    /\ Len(Top.pre) >= 2
    /\ \E j, k \in DOMAIN Top.pre :
          fnOf[Top.pre[j]] = "Rec" /\ fnOf[Top.pre[k]] = "Climb"
            /\ ~isDisposed[Top.pre[k]]
    /\ Len(wlog["X"]) > Top.at

\* C16: when a replay reaches a subscriber whose effect is disposed (before
\* the write, or by an earlier subscriber of the same replay), the call is a
\* silent no-op: the body is not run, no signal is read or written, the
\* effect stack and currentEffect stay as they are, nothing is thrown, and
\* the replay moves on to the subscriber after it.
C16_DisposedCallbackIsNoOp ==
    [][ ( /\ frames # <<>> /\ ~exc
          /\ Top.kind = "setter"
          /\ Top.idx <= Len(Top.subs)
          /\ isDisposed[Top.subs[Top.idx]] )
        => /\ UNCHANGED << value, runs, log, wlog, currentEffect, effectStack,
                           isDisposed, cleanupFunctions >>
           /\ ~exc'
           /\ Len(frames') = Len(frames)
           /\ Top' = [Top EXCEPT !.idx = @ + 1,
                                 !.inv = Append(@, [eff |-> Top.subs[Top.idx],
                                                    run |-> 0])]
           /\ Top.subs[Top.idx] \in Range(subscribers'[Top.sig])
      ]_vars

\* C16 witness: Killer (1) and Rec (2) were subscribed to X when it was
\* written; the re-run of 1 disposed 2, whose turn then came and passed
\* without a run.
C16_Witness ==
    /\ \E v \in Values : hist = << Create("Killer", 1), Create("Rec", 2), Write("X", v) >>
    /\ Len(frames) = 1
    /\ Top.subs = << 1, 2 >>
    /\ Top.inv = << [eff |-> 1, run |-> 2], [eff |-> 2, run |-> 0] >>
    /\ runs[2] = 1

\* C17 as claimed: dispose() of effect E, called inside the body of another
\* running effect B, removes E from every subscriber set and removes no other
\* effect from any, so that B stays subscribed to the signals it read.
C17_DisposeRemovesOnlyItsEffect ==
    [][ ( /\ InBody
          /\ Instr.op = "dispose"
          /\ DisposeTarget(Instr.a) \notin {Null, currentEffect} )
        => LET E == DisposeTarget(Instr.a) IN
           \A s \in Signals :
              /\ E \notin Range(subscribers'[s])
              /\ \A B \in Range(subscribers[s]) \ {E} : B \in Range(subscribers'[s])
      ]_vars

C19_SelfDisposeFinishesRun ==
    /\ \A i \in DOMAIN frames :
        (frames[i].kind = "effect" /\ isDisposed[frames[i].eff] /\ ~exc)
            => /\ frames[i].eff \in Range(effectStack)
               /\ i = Len(frames) => currentEffect = frames[i].eff
    /\ \A v \in Values \ {0} :
        /\ (Quiescent /\ hist = << Create("Killer", 1), Write("X", v) >>)
            => /\ isDisposed[1]
               /\ runs[1] = 2
               /\ [k \in 1..4 |-> << log[1][k].sig, log[1][k].run >>]
                     = << <<"X", 1>>, <<"Y", 1>>, <<"X", 2>>, <<"Y", 2>> >>
               /\ log[1][3].val = v
               /\ currentEffect = Null /\ effectStack = <<>>
        /\ ( /\ Len(hist) = 3
             /\ SubSeq(hist, 1, 2) = << Create("Killer", 1), Write("X", v) >>
             /\ hist[3].op = "write" )
            => runs[1] = 2 /\ Len(log[1]) = 4

\* C19 witness: after Killer disposed itself in its second run, which left it
\* subscribed to Y, a write has changed Y and returned.
C19_Witness ==
    /\ Quiescent
    /\ Len(hist) = 3
    /\ hist[1] = Create("Killer", 1)
    /\ hist[2].op = "write" /\ hist[2].a = "X"
    /\ hist[3].op = "write" /\ hist[3].a = "Y"
    /\ value["Y"] # 0
    /\ isDisposed[1]
    /\ subscribers["Y"] = << 1 >>
    /\ runs[1] = 2

\* The values of X and Y that effect e read in its run number r.
Saw(e, r) ==
    << {log[e][k].val : k \in ReadsOf(e, "X", r)},
       {log[e][k].val : k \in ReadsOf(e, "Y", r)} >>

\* C20: writes are not batched. Both (effect 1) reads X and Y; each
\* value-changing write to X or to Y, by top-level code or by the body of
\* another effect, is followed by its own run of effect 1, which sees the
\* values as that write left them. After X := a then Y := b, made in sequence
\* by top-level code or by one run of Double (X := F; Y := F), effect 1 has
\* run twice more, the first of these runs reading the new X and the old Y.
C20_WritesNotBatched ==
    /\ (hist # <<>> /\ hist[1] = Create("Both", 1)) =>
        /\ Quiescent => runs[1] = Len(wlog["X"]) + Len(wlog["Y"]) - 1
        /\ \A k \in DOMAIN log[1] :
            log[1][k].sig = "Y" =>
                /\ log[1][k - 1].sig = "X"
                /\ log[1][k - 1].run = log[1][k].run
                /\ log[1][k - 1].at + log[1][k].at = log[1][k].run + 1
    /\ \A a, b \in Values \ {0} :
        /\ (Quiescent /\ hist = << Create("Both", 1), Write("X", a), Write("Y", b) >>)
            => /\ runs[1] = 3
               /\ Saw(1, 2) = << {a}, {0} >>
               /\ Saw(1, 3) = << {a}, {b} >>
        /\ ( /\ Quiescent
             /\ \/ hist = << Create("Both", 1), Create("Double", 2) >> /\ wlog["F"][1] = a
                \/ hist = << Create("Both", 1), Create("Double", 2), Write("F", a) >>
                     /\ wlog["F"][1] = 0 )
            => /\ runs[1] = 3
               /\ runs[2] = Len(wlog["F"])
               /\ Saw(1, 2) = << {a}, {0} >>
               /\ Saw(1, 3) = << {a}, {a} >>

\* C20 witness: a write to F re-ran Double, whose two writes each re-ran the
\* effect reading X and Y.
C20_Witness ==
    /\ Quiescent
    /\ Len(hist) = 3
    /\ SubSeq(hist, 1, 2) = << Create("Both", 1), Create("Double", 2) >>
    /\ hist[3].op = "write" /\ hist[3].a = "F"
    /\ runs[1] = 3 /\ runs[2] = 2
    /\ Saw(1, 2) = << {value["X"]}, {0} >>
    /\ value["X"] # 0

\* A top-level write of v to signal s that has subscribers is taking place.
WritesTo(s, v) ==
    /\ Quiescent
    /\ subscribers[s] # <<>>
    /\ hist' = Append(hist, Write(s, v))

\* C21 as claimed: NaN is not equal to NaN for the write guard, so writing
\* NaN to a signal that holds NaN notifies its subscribers.
C21_NaNWriteNotifies ==
    [][ (value["X"] = NaN /\ WritesTo("X", NaN)) => frames' # <<>> ]_vars

\* C21 amended: the write guard is Object.is (SameValue). Writing NaN to a
\* signal that holds NaN is an equal-value write and changes nothing; writing
\* one zero over the other, equal under ===, stores it and notifies the
\* subscribers; in general a write notifies exactly when the value written
\* is another value than the one held.
C21_GuardIsSameValue ==
    [][ \A v \in NumValues :
          WritesTo("X", v) =>
            /\ (value["X"] = NaN /\ v = NaN) =>
                  UNCHANGED << value, subscribers, frames, runs, wlog >>
            /\ {value["X"], v} = {PosZero, NegZero} =>
                  /\ value'["X"] = v
                  /\ frames' # <<>>
                  /\ Top'.subs = subscribers["X"]
            /\ frames' # <<>> <=> v # value["X"]
      ]_vars

\* C21 witness: NaN was written to X while X held NaN and the recording
\* effect was subscribed; the effect has run once, at its creation.
C21_Witness ==
    /\ Quiescent
    /\ wlog["X"] = << NaN >>
    /\ hist = << Create("Rec", 1), Write("X", NaN) >>
    /\ subscribers["X"] = << 1 >>
    /\ runs[1] = 1

\* The value a read of s is due: the value of the latest top-level write to
\* s, or the initial value when s was never written.
WritesOf(s) == {i \in DOMAIN hist : hist[i].op = "write" /\ hist[i].a = s}
LastWritten(s) ==
    IF WritesOf(s) = {}
    THEN wlog[s][1]
    ELSE hist[CHOOSE i \in WritesOf(s) : \A j \in WritesOf(s) : j <= i].v

\* C22: each signal owns a private cell. A read returns the initial value
\* until the first write and afterwards the value most recently written; the
\* setter of s, storing and replaying, never changes the value or the
\* subscriber set of another signal (the bodies of the effects it re-runs
\* may).
C22_PrivateCell ==
    [][ \A s \in Signals :
          /\ \A v \in Values :
                hist' = Append(hist, HistOp("read", s, v)) => v = LastWritten(s)
          /\ (wlog'[s] # wlog[s] \/ (frames # <<>> /\ Top.kind = "setter"
                                                  /\ Top.sig = s))
                => \A t \in Signals \ {s} :
                     /\ value'[t] = value[t]
                     /\ subscribers'[t] = subscribers[t]
      ]_vars

\* C22 witness: Y was written while X had a subscriber, and a later read of
\* X returned X's initial value.
C22_Witness ==
    /\ hist = << Create("Rec", 1), Write("Y", 1), HistOp("read", "X", 0) >>
    /\ value["Y"] = 1
    /\ subscribers["X"] = << 1 >>

\* An effect that reads X and writes it back changed has been created; the
\* number of its runs that are on the effect stack.
Looping == \E e \in Effects : fnOf[e] = "Bump"
BumpDepth(st) == Cardinality({i \in DOMAIN st : fnOf[st[i]] = "Bump"})

\* C23: there is no cycle detection. Once an effect that reads X and writes
\* X a different value is created, the createEffect call never returns: the
\* write re-invokes the effect, which writes again; no run of the effect ever
\* leaves the effect stack, and the stack grows as deep as the host allows.
C23_NoCycleDetection ==
    /\ [](Looping => /\ ~Quiescent
                     /\ \A e \in Effects : fnOf[e] = "Bump" => ~handle[e])
    /\ [][Looping => BumpDepth(effectStack') >= BumpDepth(effectStack)]_vars
    /\ Looping ~> (Len(effectStack) = MaxDepth
                    /\ fnOf[currentEffect] = "Bump")

\* C23 witness: the effect is running nested in itself to the depth the host
\* stack allows, each run inside the replay of the previous run's write.
C23_Witness ==
    /\ Looping
    /\ BumpDepth(effectStack) = MaxDepth
    /\ Len(frames) = 2 * MaxDepth - 1
    /\ Len(wlog["X"]) = MaxDepth

\* C29: dispose() sets the flag, then invokes every cleanup function, then
\* clears the cleanup set: every closure is invoked with the flag already
\* set and the set not yet cleared, the set is cleared only after the forEach
\* has visited every closure, dispose returns with the set empty and the
\* flag true, and a flag once true stays true.
C29_DisposeOrder ==
    [][ /\ \A e \in Effects : isDisposed[e] => isDisposed'[e]
        /\ (frames # <<>> /\ Top.kind = "dispose") =>
             LET e == Top.eff
             IN /\ subscribers' # subscribers \/ DisposeInvoke =>
                     /\ isDisposed[e]
                     /\ Top.idx <= Len(cleanupFunctions[e])
                     /\ cleanupFunctions' = cleanupFunctions
                /\ cleanupFunctions'[e] # cleanupFunctions[e] =>
                     /\ isDisposed[e]
                     /\ Top.idx = Len(cleanupFunctions[e]) + 1
                     /\ cleanupFunctions'[e] = <<>>
                /\ Len(frames') < Len(frames) =>
                     /\ isDisposed'[e]
                     /\ cleanupFunctions'[e] = <<>>
      ]_vars

\* C29 witness: dispose() of an effect that had read X and Y, and so held two
\* cleanup closures, has returned.
C29_Witness ==
    /\ Quiescent
    /\ hist = << Create("Both", 1), HistOp("dispose", "", 1) >>
    /\ Len(log[1]) = 2
    /\ isDisposed[1]
    /\ cleanupFunctions[1] = <<>>

\* Frame i is a setter whose replay has just invoked its first snapshotted
\* subscriber: the effect's body is about to execute its first statement.
FirstInvoked(i) ==
    /\ ~exc
    /\ i + 1 = Len(frames)
    /\ frames[i].kind = "setter"
    /\ frames[i].idx = 2
    /\ frames[i + 1].kind = "effect"
    /\ frames[i + 1].pc = 1

\* Effect e has read signal s since the write numbered `at` cleared the set.
ReadSince(e, s, at) ==
    \E k \in DOMAIN log[e] : log[e][k].sig = s /\ log[e][k].at >= at

\* No run started by a replay reads a value older than the replay's write.
NoStaleRead ==
    \A i \in SetterFrames : \A k \in DOMAIN frames[i].inv :
        \A r \in ReadsOf(frames[i].inv[k].eff, frames[i].sig, frames[i].inv[k].run) :
            log[frames[i].inv[k].eff][r].at >= frames[i].at

\* A write has stored its value and cleared the live set, and has invoked no
\* subscriber yet.
StoredAndCleared ==
    \A i \in SetterFrames :
        (i = Len(frames) /\ frames[i].idx = 1) =>
            /\ value[frames[i].sig] = wlog[frames[i].sig][frames[i].at]
            /\ subscribers[frames[i].sig] = <<>>

\* C30 as claimed: the write stores and clears before it invokes, no
\* subscriber reads the pre-write value, and when the first snapshotted
\* subscriber is invoked the live set holds only effects that have read the
\* signal since the clear.
C30_LiveSetHoldsOnlyReaders ==
    /\ NoStaleRead
    /\ StoredAndCleared
    /\ \A i \in SetterFrames :
          FirstInvoked(i) =>
            \A e \in Range(subscribers[frames[i].sig]) :
                ReadSince(e, frames[i].sig, frames[i].at)

\* C30 amended: the write stores and clears before it invokes, no subscriber
\* reads the pre-write value, and when the first snapshotted subscriber is
\* invoked the live set holds exactly that subscriber, which the setter
\* re-added itself before the call and which has not read the signal since
\* the clear.
C30_LiveSetHoldsInvoked ==
    /\ NoStaleRead
    /\ StoredAndCleared
    /\ \A i \in SetterFrames :
          FirstInvoked(i) =>
            /\ subscribers[frames[i].sig] = << frames[i].subs[1] >>
            /\ frames[i + 1].eff = frames[i].subs[1]
            /\ ~ReadSince(frames[i].subs[1], frames[i].sig, frames[i].at)

\* C30 witness: a write with two snapshotted subscribers has just invoked the
\* first of them.
C30_Witness ==
    \E i \in SetterFrames :
        /\ FirstInvoked(i)
        /\ Len(frames[i].subs) = 2
        /\ Len(frames[i].pre) = 2

\* The calls of init made so far, autoInit's included.
InitCalls == {i \in DOMAIN hist : hist[i].op = "init"}

\* C28: x-init runs once per processing of its element, and when its
\* statement starts the bindings of the element itself and of every
\* descendant of it have been established.
C28_InitRunsLast ==
    /\ Len(dom.inits) = Cardinality(InitCalls)
    /\ \A k \in DOMAIN dom.inits : dom.inits[k].own /\ dom.inits[k].below

\* The x-for effects that can still run, and the array each last rendered.
ForEffects ==
    {e \in DOMAIN dom.effs : dom.effs[e].kind = "for" /\ ~dom.effs[e].disposed}
ItemsIn(D, e) == D.sigs[D.ctxs[D.effs[e].ctx].data["items"].sig].val
ItemsOf(e) == ItemsIn(dom, e)

\* C27: after the x-for effect has run with an array of n items, n clones
\* stand before the marker and in `nodes`, each with its directives bound
\* to a scoped context holding its item and its index.
C27_OneElementPerItem ==
    \A e \in ForEffects :
        /\ Len(dom.effs[e].nodes) = ItemsOf(e).len
        /\ \A k \in DOMAIN dom.effs[e].nodes :
            LET x == dom.effs[e].nodes[k]
            IN /\ dom.els[x].parent = dom.effs[e].par
               /\ Bound(dom, x)
               /\ dom.els[x].ctx # Null
               /\ dom.ctxs[dom.els[x].ctx].data["item"] = ValProp(k)
               /\ dom.ctxs[dom.els[x].ctx].data["index"] = ValProp(k - 1)

\* The effects bound on element x or inside it.
EffectsIn(D, x) ==
    {f \in DOMAIN D.effs : D.effs[f].el = x \/ IsDescendant(D, D.effs[f].el, x)}

\* C26: when the array behind an x-for changes, the re-render cleans up and
\* removes every previously rendered item: the item leaves the page, and
\* every effect bound inside it is disposed and every listener removed.
C26_RerenderCleansItems ==
    [][ \A e \in ForEffects :
          ItemsIn(dom', e) # ItemsIn(dom, e) =>
            \A k \in DOMAIN dom.effs[e].nodes :
                LET x == dom.effs[e].nodes[k]
                IN /\ dom'.els[x].parent = 0
                   /\ \A f \in EffectsIn(dom, x) : dom'.effs[f].disposed
                   /\ \A y \in DOMAIN dom.els :
                        (y = x \/ IsDescendant(dom, y, x)) =>
                            /\ dom'.els[y].listeners = <<>>
                            /\ dom'.els[y].ctx = Null
      ]_vars

\* The effects of x's x-text binding that can still run.
LiveTextEffects(x) ==
    {f \in DOMAIN dom.effs :
        dom.effs[f].el = x /\ dom.effs[f].kind = "text" /\ ~dom.effs[f].disposed}

\* The last two calls were cleanup(el); init(el).
Recipe(el) ==
    /\ Len(hist) >= 3
    /\ hist[Len(hist) - 1].op = "cleanup"
    /\ hist[Len(hist) - 1].a = dom.els[el].role
    /\ hist[Len(hist)].op = "init"
    /\ hist[Len(hist)].a = dom.els[el].role

\* C25: after cleanup(el); init(el) on an initialised el, with or without
\* x-data of its own, every binding in el's subtree has exactly one live
\* effect and every x-on element exactly one listener.
C25_RecipeLeavesOneBinding ==
    \A el \in {BodyEl, CompEl} :
        Recipe(el) =>
            \A x \in DOMAIN dom.els :
                (x = el \/ IsDescendant(dom, x, el)) =>
                    /\ XText(dom.els[x].role) # "" =>
                            Cardinality(LiveTextEffects(x)) = 1
                    /\ XOn(dom.els[x].role) => Len(dom.els[x].listeners) = 1

\* The step is the call op(el) by the page's script.
DomCall(op, el) ==
    /\ Len(hist') = Len(hist) + 1
    /\ hist'[Len(hist')].op = op
    /\ hist'[Len(hist')].a = dom.els[el].role

\* The binding effects of the component whose context is c: those bound
\* against c and those bound against a scoped context x-for derived from c.
ComponentEffects(c) ==
    {f \in DOMAIN dom.effs :
        dom.effs[f].ctx = c \/ dom.ctxs[dom.effs[f].ctx].from = c}

\* cleanup(el) runs on an element that has a context: every function of the
\* context's cleanup list is invoked, the context is deleted, and the nested
\* x-data descendants are cleaned the same way.
CleansUp(el) ==
    LET c == dom.els[el].ctx
    IN /\ ~hist'[Len(hist')].threw
       /\ dom'.els[el].ctx = Null
       /\ \A y \in DOMAIN dom.els :
            (y = el \/ (XData(dom.els[y].role) /\ IsDescendant(dom, y, el)
                                               /\ dom.els[y].ctx # Null)) =>
                /\ dom'.els[y].ctx = Null
                /\ \A k \in DOMAIN dom.ctxs[dom.els[y].ctx].cleanup :
                    LET fn == dom.ctxs[dom.els[y].ctx].cleanup[k]
                    IN /\ fn.kind = "dispose" => dom'.effs[fn.eff].disposed
                       /\ fn.kind = "unlisten" =>
                            fn.h \notin Range(dom'.els[fn.el].listeners)
                       /\ fn.kind \in {"dispose", "unlisten"}

\* C24: cleanup(el) on an element with an x-data context invokes every
\* function of the context's cleanup list, deletes the context and cleans
\* the nested x-data descendants; afterwards no write to the component's
\* data re-runs any of its binding effects, getData(el) returns null, and a
\* second cleanup(el) changes nothing.
C24_CleanupStopsComponent ==
    [][ /\ \A el \in {CompEl, InnerEl} :
            /\ (DomCall("cleanup", el) /\ dom.els[el].ctx # Null) => CleansUp(el)
            /\ (DomCall("cleanup", el) /\ dom.els[el].ctx = Null) => dom' = dom
            /\ (DomCall("getData", el) /\ dom.els[el].ctx = Null) =>
                    hist'[Len(hist')].v = Null
        /\ \A c \in dom.held :
            (Len(hist') = Len(hist) + 1 /\ hist'[Len(hist')].op = "set"
                /\ hist'[Len(hist')].v = c /\ dom.ctxs[c].deleted) =>
                    \A f \in ComponentEffects(c) :
                        dom'.effs[f].runs = dom.effs[f].runs
      ]_vars

\* A sequence without a repeated element.
NoRepeat(q) == Cardinality(Range(q)) = Len(q)

\* C31: subscription is idempotent. An effect that reads the same signal
\* several times in a run, and again in each later run, stands once in the
\* signal's subscriber set and once in the snapshot of a write, and its body
\* has run once at creation and once per value-changing write made since.
C31_SubscriptionIdempotent ==
    /\ \A s \in Signals : NoRepeat(subscribers[s])
    /\ \A i \in SetterFrames :
        /\ NoRepeat(frames[i].subs)
        /\ NoRepeat(Effs(frames[i].inv))
    /\ Quiescent =>
         \A e \in Effects :
            fnOf[e] # NoFn => runs[e] = 1 + Len(wlog["X"]) - log[e][1].at

\* C31 witness: an effect reading X twice per run has been re-run by a
\* write and has read X at least four times; it is X's only subscriber.
C31_Witness ==
    /\ Quiescent
    /\ fnOf[1] = "Twice"
    /\ runs[1] >= 2
    /\ Len(log[1]) >= 4
    /\ subscribers["X"] = << 1 >>

\* The signals a write in progress in the call stack fr has written.
BeingWritten(fr) == {fr[i].sig : i \in {k \in DOMAIN fr : fr[k].kind = "setter"}}

\* C32: updates are surgical. While writes are in progress, an effect that
\* has never read any of the signals being written does not start a run, and
\* unless its own body is executing its subscriptions stay as they were; a
\* write's snapshot holds only effects that have read the written signal.
C32_Surgical ==
    [][ /\ \A e \in Effects :
            ( /\ fnOf[e] # NoFn
              /\ BeingWritten(frames) \cup BeingWritten(frames') # {}
              /\ EverRead(e) \cap (BeingWritten(frames) \cup BeingWritten(frames')) = {}
            ) => /\ runs'[e] = runs[e]
                 /\ e \notin Range(effectStack) =>
                       \A s \in Signals :
                           e \in Range(subscribers'[s]) <=> e \in Range(subscribers[s])
        /\ \A i \in DOMAIN frames' :
            frames'[i].kind = "setter" =>
                \A e \in Range(frames'[i].subs) : frames'[i].sig \in EverRead(e)
      ]_vars

\* C32 witness: a write has replayed its snapshot, one effect at least,
\* while another effect, subscribed elsewhere, has never read the written
\* signal.
C32_Witness ==
    \E i \in SetterFrames : \E e \in Effects :
        /\ frames[i].idx > Len(frames[i].subs)
        /\ Len(frames[i].subs) >= 1
        /\ fnOf[e] # NoFn
        /\ frames[i].sig \notin EverRead(e)
        /\ SubscribedTo(e) # {}

\* The reads effect e made in its most recently started run.
LatestReads(e) == {k \in DOMAIN log[e] : log[e][k].run = runs[e]}

\* No call made so far threw, and no disposer was called.
Undisturbed ==
    /\ \A k \in DOMAIN hist : ~hist[k].threw /\ hist[k].op # "dispose"
    /\ \A e \in Effects : ~isDisposed[e]

\* C33: consistency at quiescence. In an execution without exceptions and
\* dispose calls, whenever a top-level write or createEffect has returned,
\* every read that an effect made in its most recently started run returned
\* the value the signal holds now.
C33_ConsistentAtQuiescence ==
    (Quiescent /\ Undisturbed) =>
        \A e \in Effects : \A k \in LatestReads(e) :
            log[e][k].val = value[log[e][k].sig]

\* C33 witness: all calls have returned after a write that ran into nested
\* writes: an effect that writes X back from inside the replay of X stands
\* beside one that reads X and Y, which ran three times or more.
C33_Witness ==
    /\ Quiescent
    /\ Undisturbed
    /\ \E a, b \in Effects :
        /\ fnOf[a] \in {"Climb", "Back"}
        /\ fnOf[b] = "Both"
        /\ runs[a] >= 2
        /\ runs[b] >= 3
        /\ Len(wlog["X"]) >= 3

\* C34 as claimed: when the exception thrown by a subscriber's body leaves
\* the setter whose replay called it, every effect of that write's snapshot,
\* those after the thrower included, is in the written signal's subscriber
\* set.
C34_ThrowKeepsSnapshot ==
    [][ (exc /\ frames # <<>> /\ Top.kind = "setter")
            => Range(Top.pre) \subseteq Range(subscribers'[Top.sig])
      ]_vars

\* C35 as claimed: an effect's cleanup set holds at most one unsubscribe
\* callback per signal the effect is subscribed to, however often the effect
\* has re-run or read the same signal again.
C35_CleanupSetBounded ==
    \A e \in Effects :
        Len(cleanupFunctions[e]) <= Cardinality(SubscribedTo(e))

\* The effects created from body b.
Made(b) == {e \in Effects : fnOf[e] = b}

\* C36 as claimed: inner effects do not accumulate. Outer creates an Inner
\* effect, which reads Y, on each of its runs; however often the Outer
\* effects have re-run, Y holds at most one live Inner subscriber per Outer
\* effect, so that a write to Y runs Inner's body once for each.
C36_InnerEffectsDoNotAccumulate ==
    Cardinality({e \in Made("Inner") :
                    ~isDisposed[e] /\ e \in Range(subscribers["Y"])})
        <= Cardinality(Made("Outer"))

\* Effect e was created by a body, not by top-level code.
MadeInside(e) ==
    /\ fnOf[e] # NoFn
    /\ \A k \in DOMAIN hist : ~(hist[k].op = "create" /\ hist[k].v = e)

\* C37: an effect that reads X for the first time while a write to X is
\* being replayed, not being in that write's snapshot, is not invoked by that
\* write; when the write has returned it is in X's subscriber set, and each
\* later value-changing write to X invokes it once: its body has run once
\* for its creation and once per value written since its first read.
C37_LateSubscriber ==
    /\ \A i \in SetterFrames : \A e \in Effects :
          (fnOf[e] # NoFn /\ e \notin Range(frames[i].pre))
              => e \notin Range(Effs(frames[i].inv))
    /\ Quiescent =>
          \A e \in Effects :
              fnOf[e] # NoFn =>
                  /\ e \in Range(subscribers["X"])
                  /\ runs[e] = 1 + Len(wlog["X"]) - log[e][1].at

\* C37 witness: an effect created by a subscriber during the replay of a
\* write to X has been invoked by a later write.
C37_Witness ==
    /\ Quiescent
    /\ Len(hist) >= 3
    /\ hist[1] = Create("GrowOnce", 1)
    /\ hist[2] = Write("X", 1)
    /\ MadeInside(2)
    /\ log[2][1].at = 2
    /\ runs[2] >= 2

\* The x-for effect e has rendered a non-empty array, one clone per item.
Rendered(e) ==
    /\ ItemsOf(e).len > 0
    /\ Len(dom.effs[e].nodes) = ItemsOf(e).len

\* C38 as claimed: an x-for effect that has rendered a non-empty array is
\* subscribed only to the signal its items expression reads, and a write to
\* another property of the same x-data (data.count = v) does not re-run it.
C38_ForTracksItemsOnly ==
    [][ \A e \in ForEffects :
          Rendered(e) =>
            /\ \A s \in DOMAIN dom.sigs :
                  e \in Range(dom.sigs[s].subs) =>
                      s = dom.ctxs[dom.effs[e].ctx].data["items"].sig
            /\ ( /\ Len(hist') = Len(hist) + 1
                 /\ hist'[Len(hist')].op = "set"
                 /\ hist'[Len(hist')].a = "count"
                 /\ hist'[Len(hist')].v = dom.effs[e].ctx
               ) => dom'.effs[e].runs = dom.effs[e].runs
      ]_vars

\* The signal behind data.count of the component, and the step is a write
\* to it that changes its value: data.count = v by the script, or a click.
CountSig == dom.ctxs[dom.els[CompEl].ctx].data["count"].sig
WritesCount ==
    /\ dom.loaded
    /\ dom.els[CompEl].ctx # Null
    /\ Len(hist') = Len(hist) + 1
    /\ \/ /\ hist'[Len(hist')].op = "set"
          /\ hist'[Len(hist')].a = "count"
          /\ hist'[Len(hist')].v = dom.els[CompEl].ctx
       \/ hist'[Len(hist')].op = "click"
    /\ dom'.sigs[CountSig].val # dom.sigs[CountSig].val

\* The effects of the bindings whose expression throws on the value v.
Throwers(v) ==
    {f \in DOMAIN dom.effs :
        /\ dom.effs[f].kind = "text"
        /\ XText(dom.els[dom.effs[f].el].role) = Guarded
        /\ v = MaxVal}

\* C39: binding effects never propagate errors into the core. When a write
\* to data.count re-runs a binding whose expression throws, the error is
\* caught and logged inside the effect body, the write returns normally, and
\* every subscriber of the write's snapshot has been invoked and is still
\* subscribed.
C39_BindingErrorsStayInside ==
    [][ WritesCount =>
          /\ ~hist'[Len(hist')].threw
          /\ ~dom'.exc
          /\ dom'.stack = <<>> /\ dom'.cur = Null
          /\ \A f \in Range(dom.sigs[CountSig].subs) :
                /\ dom'.effs[f].runs > dom.effs[f].runs
                /\ f \in Range(dom'.sigs[CountSig].subs)
          /\ \A f \in Throwers(dom'.sigs[CountSig].val) \cap Range(dom.sigs[CountSig].subs) :
                /\ dom'.errors > dom.errors
                /\ dom'.els[dom.effs[f].el].text = Empty
      ]_vars

\* C39 witness: the script wrote N to data.count; the guarded binding, first
\* of at least two subscribers, threw in its re-run, the error was logged and
\* the call returned.
C39_Witness ==
    /\ dom.loaded
    /\ dom.els[CompEl].ctx # Null
    /\ hist # <<>>
    /\ Last(hist).op = "set"
    /\ ~Last(hist).threw
    /\ dom.sigs[CountSig].val = MaxVal
    /\ Len(dom.sigs[CountSig].subs) >= 2
    /\ dom.sigs[CountSig].subs[1] \in Throwers(MaxVal)
    /\ dom.effs[dom.sigs[CountSig].subs[1]].runs >= 2
    /\ dom.errors >= 1

====
